---- MODULE Spec2Model ----
(***************************************************************************)
(* Session client of the Atrea RD5 web API (web.go, printed in API.md):    *)
(* the login handshake, the stored session token and the requests the      *)
(* data operations issue.  Go strings are TLA+ strings; the code's index,  *)
(* slice, trim and split operations are computed on them with SubSeq.      *)
(***************************************************************************)
EXTENDS Integers, Sequences, FiniteSets, TLC

(***************************************************************************)
(* Go string primitives used by web.go.                                    *)
(***************************************************************************)
MinOf(S) == CHOOSE m \in S : \A n \in S : m <= n

MaxOf(S) == CHOOSE m \in S : \A n \in S : m >= n

\* s[i] for a 0-based byte index i, as a one-character string.
CharAt(s, i) == SubSeq(s, i + 1, i + 1)

\* s[lo:hi]
Slice(s, lo, hi) == SubSeq(s, lo + 1, hi)

\* s[lo:]
SliceFrom(s, lo) == SubSeq(s, lo + 1, Len(s))

\* strings.Index: the 0-based index of the first occurrence of sub, or -1.
Index(s, sub) ==
  LET hits == { i \in 0..(Len(s) - Len(sub)) : Slice(s, i, i + Len(sub)) = sub }
  IN  IF hits = {} THEN -1 ELSE MinOf(hits)

IsSpace(c) == c \in { " ", "\t", "\n", "\r", "\f" }

\* strings.TrimSpace
TrimSpace(s) ==
  LET keep == { i \in 0..(Len(s) - 1) : ~IsSpace(CharAt(s, i)) }
  IN  IF keep = {} THEN "" ELSE Slice(s, MinOf(keep), MaxOf(keep) + 1)

\* strings.Split(s, sep) for a non-empty separator.
RECURSIVE Split(_, _)
Split(s, sep) ==
  LET i == Index(s, sep)
  IN  IF i = -1 THEN << s >>
      ELSE << Slice(s, 0, i) >> \o Split(SliceFrom(s, i + Len(sep)), sep)

Digits == "0123456789"

IsDigit(c) == \E i \in 0..9 : CharAt(Digits, i) = c

DigitVal(c) == CHOOSE i \in 0..9 : CharAt(Digits, i) = c

AllDigits(s) == \A i \in 0..(Len(s) - 1) : IsDigit(CharAt(s, i))

\* a <= b for two digit strings of the same length.
RECURSIVE DigitsLeq(_, _)
DigitsLeq(a, b) ==
  IF Len(a) = 0 THEN TRUE
  ELSE IF DigitVal(Head(a)) # DigitVal(Head(b))
       THEN DigitVal(Head(a)) < DigitVal(Head(b))
       ELSE DigitsLeq(Tail(a), Tail(b))

RECURSIVE StripZeros(_)
StripZeros(s) ==
  IF Len(s) > 1 /\ Head(s) = "0" THEN StripZeros(Tail(s)) ELSE s

\* strconv.Atoi returns a nil error: an optional sign, at least one digit,
\* digits only, and a value that fits the 64-bit int.
AtoiOk(s) ==
  LET signed == Len(s) > 0 /\ Head(s) \in { "+", "-" }
      digits == IF signed THEN Tail(s) ELSE s
      limit  == IF signed /\ Head(s) = "-"
                THEN "9223372036854775808" ELSE "9223372036854775807"
      sig    == StripZeros(digits)
  IN  /\ Len(digits) >= 1
      /\ AllDigits(digits)
      /\ \/ Len(sig) < Len(limit)
         \/ Len(sig) = Len(limit) /\ DigitsLeq(sig, limit)

\* The ASCII characters 32..95 and 97..126, in order.
AsciiLow == " !\"#$%&'()*+,-./0123456789:;<=>?@ABCDEFGHIJKLMNOPQRSTUVWXYZ[\\]^_"

AsciiHigh == "abcdefghijklmnopqrstuvwxyz{|}~"

\* The byte of a one-character string.
Ord(c) ==
  IF c = "\t" THEN 9
  ELSE IF c = "\n" THEN 10
  ELSE IF c = "\f" THEN 12
  ELSE IF c = "\r" THEN 13
  ELSE IF Index(AsciiLow, c) # -1 THEN 32 + Index(AsciiLow, c)
  ELSE 97 + Index(AsciiHigh, c)

\* []byte(s)
StringBytes(s) == [ i \in 1..Len(s) |-> Ord(CharAt(s, i - 1)) ]

(***************************************************************************)
(* crypto/md5 as Login uses it: md5.New, io.WriteString, Sum, "%x".        *)
(* A 32-bit word is a pair <<hi, lo>> of 16-bit halves.                    *)
(***************************************************************************)
RECURSIVE And16(_, _, _)
And16(a, b, n) ==
  IF n = 0 THEN 0
  ELSE (a % 2) * (b % 2) + 2 * And16(a \div 2, b \div 2, n - 1)

Pow2(n) == 2 ^ n

WAnd(x, y) == << And16(x[1], y[1], 16), And16(x[2], y[2], 16) >>

WOr(x, y) ==
  << x[1] + y[1] - And16(x[1], y[1], 16), x[2] + y[2] - And16(x[2], y[2], 16) >>

WXor(x, y) ==
  << x[1] + y[1] - 2 * And16(x[1], y[1], 16),
     x[2] + y[2] - 2 * And16(x[2], y[2], 16) >>

WNot(x) == << 65535 - x[1], 65535 - x[2] >>

WAdd(x, y) ==
  LET lo == x[2] + y[2]
  IN  << (x[1] + y[1] + (lo \div 65536)) % 65536, lo % 65536 >>

WRotl(x, s) ==
  LET y == IF s >= 16 THEN << x[2], x[1] >> ELSE x
      r == s % 16
  IN  IF r = 0 THEN y
      ELSE << ((y[1] * Pow2(r)) % 65536) + (y[2] \div Pow2(16 - r)),
              ((y[2] * Pow2(r)) % 65536) + (y[1] \div Pow2(16 - r)) >>

MD5K ==
    << <<55146, 42104>>, <<59591, 46934>>, <<9248, 28891>>, <<49597, 52974>>,
       <<62844, 4015>>, <<18311, 50730>>, <<43056, 17939>>, <<64838, 38145>>,
       <<27008, 39128>>, <<35652, 63407>>, <<65535, 23473>>, <<35164, 55230>>,
       <<27536, 4386>>, <<64920, 29075>>, <<42617, 17294>>, <<18868, 2081>>,
       <<63006, 9570>>, <<49216, 45888>>, <<9822, 23121>>, <<59830, 51114>>,
       <<54831, 4189>>, <<580, 5203>>, <<55457, 59009>>, <<59347, 64456>>,
       <<8673, 52710>>, <<49975, 2006>>, <<62677, 3463>>, <<17754, 5357>>,
       <<43491, 59653>>, <<64751, 41976>>, <<26479, 729>>, <<36138, 19594>>,
       <<65530, 14658>>, <<34673, 63105>>, <<28061, 24866>>, <<64997, 14348>>,
       <<42174, 59972>>, <<19422, 53161>>, <<63163, 19296>>, <<48831, 48240>>,
       <<10395, 32454>>, <<60065, 10234>>, <<54511, 12421>>, <<1160, 7429>>,
       <<55764, 53305>>, <<59099, 39397>>, <<8098, 31992>>, <<50348, 22117>>,
       <<62505, 8772>>, <<17194, 65431>>, <<43924, 9127>>, <<64659, 41017>>,
       <<25947, 22979>>, <<36620, 52370>>, <<65519, 62589>>, <<34180, 24017>>,
       <<28584, 32335>>, <<65068, 59104>>, <<41729, 17172>>, <<19976, 4513>>,
       <<63315, 32386>>, <<48442, 62005>>, <<10967, 53947>>, <<60294, 54161>> >>

MD5S ==
    << 7, 12, 17, 22, 7, 12, 17, 22, 7, 12, 17, 22, 7, 12, 17, 22,
       5, 9, 14, 20, 5, 9, 14, 20, 5, 9, 14, 20, 5, 9, 14, 20,
       4, 11, 16, 23, 4, 11, 16, 23, 4, 11, 16, 23, 4, 11, 16, 23,
       6, 10, 15, 21, 6, 10, 15, 21, 6, 10, 15, 21, 6, 10, 15, 21 >>

MD5Init == << <<26437, 8961>>, <<61389, 43913>>, <<39098, 56574>>, <<4146, 21622>> >>

\* The message followed by 0x80, zeros up to 56 mod 64, and the bit length
\* as eight little-endian bytes.
MD5Pad(bytes) ==
  LET n     == Len(bytes)
      zeros == (119 - n) % 64
      bits  == 8 * n
  IN  bytes \o << 128 >> \o [i \in 1..zeros |-> 0]
        \o << bits % 256, (bits \div 256) % 256, (bits \div 65536) % 256,
              0, 0, 0, 0, 0 >>

\* Word j (0..15) of the block that starts at byte offset off, little-endian.
MD5Word(m, off, j) ==
  << m[off + 4 * j + 3] + 256 * m[off + 4 * j + 4],
     m[off + 4 * j + 1] + 256 * m[off + 4 * j + 2] >>

MD5F(i, b, c, d) ==
  IF i < 16 THEN WOr(WAnd(b, c), WAnd(WNot(b), d))
  ELSE IF i < 32 THEN WOr(WAnd(d, b), WAnd(WNot(d), c))
  ELSE IF i < 48 THEN WXor(WXor(b, c), d)
  ELSE WXor(c, WOr(b, WNot(d)))

MD5G(i) ==
  IF i < 16 THEN i
  ELSE IF i < 32 THEN (5 * i + 1) % 16
  ELSE IF i < 48 THEN (3 * i + 5) % 16
  ELSE (7 * i) % 16

\* Round i (0..63) on the state st = <<a, b, c, d>>.
MD5Step(st, m, off, i) ==
  LET f == WAdd(WAdd(WAdd(MD5F(i, st[2], st[3], st[4]), st[1]), MD5K[i + 1]),
                MD5Word(m, off, MD5G(i)))
  IN  << st[4], WAdd(st[2], WRotl(f, MD5S[i + 1])), st[2], st[3] >>

\* Rounds lo..hi in order.  The first half is bound to a value before the
\* second half starts from it.
RECURSIVE MD5Rounds(_, _, _, _, _)
MD5Rounds(st, m, off, lo, hi) ==
  IF lo = hi THEN MD5Step(st, m, off, lo)
  ELSE LET mid == (lo + hi) \div 2
       IN  CHOOSE r \in { MD5Rounds(half, m, off, mid + 1, hi) :
                          half \in { MD5Rounds(st, m, off, lo, mid) } } : TRUE

RECURSIVE MD5Blocks(_, _, _)
MD5Blocks(st, m, off) ==
  IF off >= Len(m) THEN st
  ELSE LET r == MD5Rounds(st, m, off, 0, 63)
       IN  MD5Blocks(<< WAdd(st[1], r[1]), WAdd(st[2], r[2]),
                        WAdd(st[3], r[3]), WAdd(st[4], r[4]) >>, m, off + 64)

\* The 16 digest bytes: the four state words, each little-endian.
MD5Sum(bytes) ==
  LET st == MD5Blocks(MD5Init, MD5Pad(bytes), 0)
      wb(w) == << w[2] % 256, w[2] \div 256, w[1] % 256, w[1] \div 256 >>
  IN  wb(st[1]) \o wb(st[2]) \o wb(st[3]) \o wb(st[4])

HexDigits == "0123456789abcdef"

\* fmt.Sprintf("%x", bytes): two lowercase hexadecimal digits per byte.
RECURSIVE HexLower(_)
HexLower(bytes) ==
  IF Len(bytes) = 0 THEN ""
  ELSE LET b == Head(bytes)
       IN  SubSeq(HexDigits, (b \div 16) + 1, (b \div 16) + 1)
             \o SubSeq(HexDigits, (b % 16) + 1, (b % 16) + 1)
             \o HexLower(Tail(bytes))


(***************************************************************************)
(* net/url and net/http as web.go uses them.                               *)
(***************************************************************************)
\* url.Values{}
NewValues == [ k \in {} |-> "" ]

\* params.Set(key, value): the key's value is replaced, the others kept.
Set(params, key, value) ==
  [ k \in (DOMAIN params) \cup { key } |-> IF k = key THEN value ELSE params[k] ]

\* baseURL + path + "?" + params.Encode(), as the device decodes it again.
URL(baseURL, path, params) == [ base |-> baseURL, path |-> path, query |-> params ]

\* The device's answers to one GET: no answer at all (httpClient.Get returns
\* an error), or a status and a body, whose reading may fail part-way.
TransportFailure == [ kind |-> "error", status |-> 0, body |-> "", readErr |-> FALSE ]

Response(status, body) ==
  [ kind |-> "response", status |-> status, body |-> body, readErr |-> FALSE ]

BrokenBody(status, partial) ==
  [ kind |-> "response", status |-> status, body |-> partial, readErr |-> TRUE ]

ErrTransport == "Get: connection refused"

ErrRead == "unexpected EOF"

ErrAuth == "authentication failed: invalid response from device"

RECURSIVE Itoa(_)
Itoa(n) ==
  IF n < 10 THEN CharAt(Digits, n)
  ELSE Itoa(n \div 10) \o CharAt(Digits, n % 10)

StatusOK == 200

(***************************************************************************)
(* WebClient (web.go).  Every operation is a function of the client, the   *)
(* call's arguments and the device's answer; it yields the client after    *)
(* the call, the returned value and error, and the requests it sent.       *)
(***************************************************************************)
NewWebClient(ip) == [ baseURL |-> "http://" \o ip, auth |-> "" ]

\* generateRandomString(length): any string of `length` decimal digits;
\* the model draws it from NonceSamples.
NonceSamples == { "000", "427", "00", "73" }

generateRandomString(length) == { s \in NonceSamples : Len(s) = length }

\* LoginMagic hashing the four characters \r\n as escaped text instead of
\* the two bytes CR LF.
LoginMagicEscapedText(password) == HexLower(MD5Sum(StringBytes("\\r\\n" \o password)))

\* STEP 1 of Login: the hex MD5 of "\r\n" + password.
LoginMagic(password) == HexLower(MD5Sum(StringBytes("\r\n" \o password)))

\* ExtractSessionID taking the text between the first '>' and the last '<'
\* of the answer, whatever the tags are.
ExtractSessionIDFirstLast(responseStr) ==
  LET startIdx == Index(responseStr, ">")
      opens    == { i \in 0..(Len(responseStr) - 1) : CharAt(responseStr, i) = "<" }
      endIdx   == IF opens = {} THEN -1 ELSE MaxOf(opens)
  IN  IF startIdx # -1 /\ endIdx # -1 /\ startIdx < endIdx
      THEN [ found |-> TRUE,
             sessionID |-> TrimSpace(Slice(responseStr, startIdx + 1, endIdx)) ]
      ELSE [ found |-> FALSE, sessionID |-> "" ]

\* STEP 4 of Login, the search: the trimmed text between the '>' closing the
\* first "<root" and the first "</root>", when there is one after that '>'.
ExtractSessionID(responseStr) ==
  LET rootStart == Index(responseStr, "<root")
      gt        == Index(SliceFrom(responseStr, rootStart), ">")
      start     == rootStart + gt + 1
      endTag    == Index(responseStr, "</root>")
  IN  IF rootStart # -1 /\ gt # -1 /\ endTag # -1 /\ start < endTag
      THEN [ found |-> TRUE, sessionID |-> TrimSpace(Slice(responseStr, start, endTag)) ]
      ELSE [ found |-> FALSE, sessionID |-> "" ]

\* STEP 4 of Login, the validation of the extracted text.
ValidSessionID(sessionID) ==
  /\ sessionID # ""
  /\ sessionID # "0"
  /\ sessionID # "denied"
  /\ AtoiOk(sessionID)

\* LoginSucceeded returning the token without storing it.
LoginSucceededUnstored(c, reqs, sessionID) ==
  [ wc |-> c, ret |-> sessionID, err |-> "nil", reqs |-> reqs ]

\* wc.auth = sessionID; return sessionID, nil
LoginSucceeded(c, reqs, sessionID) ==
  [ wc |-> [ c EXCEPT !.auth = sessionID ], ret |-> sessionID, err |-> "nil", reqs |-> reqs ]

\* LoginFailed dropping the session the client held.
LoginFailedClearsSession(c, reqs, err) ==
  [ wc |-> [ c EXCEPT !.auth = "" ], ret |-> "", err |-> err, reqs |-> reqs ]

\* return "", err
LoginFailed(c, reqs, err) ==
  [ wc |-> c, ret |-> "", err |-> err, reqs |-> reqs ]

IsAuthenticated(c) == c.auth # ""

GetSessionID(c) == c.auth

\* SetSessionID refusing the empty session ID.
SetSessionIDIgnoresEmpty(c, sessionID) ==
  IF sessionID = "" THEN c ELSE [ c EXCEPT !.auth = sessionID ]

SetSessionID(c, sessionID) == [ c EXCEPT !.auth = sessionID ]

\* SessionManager.Logout (utils.go)
Logout(c) == SetSessionID(c, "")

(***************************************************************************)
(* The inputs the model draws from: the caller's arguments and the         *)
(* device's answers.                                                       *)
(***************************************************************************)
DeviceIP == "192.168.68.106"

Passwords == { "6378", "wrongpassword", "" }

\* A login answer that holds a root element: prefix, the root tag's
\* attributes, the text inside the element, and what follows it.
RootDoc(pre, attrs, text, post) ==
  [ pre |-> pre, attrs |-> attrs, text |-> text, post |-> post ]

Render(d) == d.pre \o "<root" \o d.attrs \o ">" \o d.text \o "</root>" \o d.post

XmlDecl == "<?xml version=\"1.0\"?>"

XmlDeclUTF8 == "<?xml version=\"1.0\" encoding=\"UTF-8\"?>"

RootDocs ==
  { RootDoc(XmlDecl, " lng=\"0\"", "15736", ""),
    RootDoc(XmlDeclUTF8 \o "\n", " lng=\"0\"", " 60588\n", "\n"),
    RootDoc(XmlDeclUTF8, " lng=\"0\"", "denied", ""),
    RootDoc("", "", "0", ""),
    RootDoc("", "", "", ""),
    RootDoc("", "", "  ", ""),
    RootDoc("", "", "12a45", ""),
    RootDoc("", "", "4 2", ""),
    RootDoc("", "", "-5", ""),
    RootDoc("", "", "+7", ""),
    RootDoc("", "", "99999999999999999999", "") }

\* Login answers without a root element.
NoRootBodies == { XmlDeclUTF8, "denied", "0", "", "46239</root><root>" }

LoginBodies == { Render(d) : d \in RootDocs } \cup NoRootBodies

LoginReplies ==
  { TransportFailure, BrokenBody(200, "<?xml"), Response(500, Render(RootDoc("", "", "46239", ""))) }
    \cup { Response(200, b) : b \in LoginBodies }

SampleData ==
  "<?xml version=\"1.0\"?><RD5WEB><RD5><INTEGER_R><O I=\"I10215\" V=\"201\"/></INTEGER_R></RD5></RD5WEB>"

SampleAlarms ==
  "<?xml version=\"1.0\"?><RD5WEB><ALARMS><ALARM>No alarms</ALARM></ALARMS></RD5WEB>"

DataReplies ==
  { TransportFailure, BrokenBody(200, "<?xml version"), Response(200, SampleData),
    Response(200, SampleAlarms), Response(401, ""), Response(200, " no access\n") }

WriteReplies ==
  { TransportFailure, Response(200, ""), Response(204, ""), Response(404, "not found"),
    Response(500, "") }

\* Parameters "in format like H12345=1000", as SetValue requires.
Parameters == { "H11021=21", "H11021=22", "H10715=1" }

\* SetMultipleValues skips the entries that do not split in two at "=".
ParameterLists ==
  { << >>, << "H11021=21" >>, << "H11021=21", "H10715=1" >>,
    << "H11021=21", "H11021=22" >>, << "H10715", "H11021=21" >>, << "H10715=1=2" >> }

SessionIDs == { "", "12345", "15736" }

\* LoginMagic of each password the model uses, computed once.
LoginMagicOf == [ p \in Passwords |-> LoginMagic(p) ]

(***************************************************************************)
(* The operations that talk to the device.                                 *)
(***************************************************************************)
Login(c, password, nonce, reply) ==
  LET magic  == LoginMagicOf[password]
      params == Set(Set(NewValues, "magic", magic), "rnd", nonce)
      reqs   == << URL(c.baseURL, "/config/login.cgi", params) >>
  IN  IF reply.kind = "error" THEN LoginFailed(c, reqs, ErrTransport)
      ELSE IF reply.readErr THEN LoginFailed(c, reqs, ErrRead)
      ELSE LET parsed == ExtractSessionID(TrimSpace(reply.body))
           IN  IF parsed.found /\ ValidSessionID(parsed.sessionID)
               THEN LoginSucceeded(c, reqs, parsed.sessionID)
               ELSE LoginFailed(c, reqs, ErrAuth)

\* ReadDocument never sending the token.
ReadDocumentNoAuth(c, path, nonce, reply) ==
  LET params == Set(NewValues, "rnd", nonce)
      reqs   == << URL(c.baseURL, path, params) >>
  IN  IF reply.kind = "error"
      THEN [ wc |-> c, ret |-> "", err |-> ErrTransport, reqs |-> reqs ]
      ELSE [ wc |-> c, ret |-> reply.body,
             err |-> IF reply.readErr THEN ErrRead ELSE "nil", reqs |-> reqs ]

\* ReadDocument refusing an answer whose status is not 200.
ReadDocumentChecksStatus(c, path, nonce, reply) ==
  LET auth   == IF c.auth # "" THEN Set(NewValues, "auth", c.auth) ELSE NewValues
      params == Set(auth, "rnd", nonce)
      reqs   == << URL(c.baseURL, path, params) >>
  IN  IF reply.kind = "error"
      THEN [ wc |-> c, ret |-> "", err |-> ErrTransport, reqs |-> reqs ]
      ELSE IF reply.status # StatusOK
      THEN [ wc |-> c, ret |-> "",
             err |-> "failed to get data: status " \o Itoa(reply.status), reqs |-> reqs ]
      ELSE [ wc |-> c, ret |-> reply.body,
             err |-> IF reply.readErr THEN ErrRead ELSE "nil", reqs |-> reqs ]

\* GetData and GetAlarms differ in the path alone.
ReadDocument(c, path, nonce, reply) ==
  LET auth   == IF c.auth # "" THEN Set(NewValues, "auth", c.auth) ELSE NewValues
      params == Set(auth, "rnd", nonce)
      reqs   == << URL(c.baseURL, path, params) >>
  IN  IF reply.kind = "error"
      THEN [ wc |-> c, ret |-> "", err |-> ErrTransport, reqs |-> reqs ]
      ELSE [ wc |-> c, ret |-> reply.body,
             err |-> IF reply.readErr THEN ErrRead ELSE "nil", reqs |-> reqs ]

GetData(c, nonce, reply) == ReadDocument(c, "/config/xml.xml", nonce, reply)

GetAlarms(c, nonce, reply) == ReadDocument(c, "/config/alarms.xml", nonce, reply)

\* SetValue dropping the session when the device rejects the write.
SetValueDropsSession(c, parameter, reply) ==
  LET parts  == Split(parameter, "=")
      params == Set(Set(NewValues, "auth", c.auth), parts[1], parts[2])
      reqs   == << URL(c.baseURL, "/config/xml.cgi", params) >>
  IN  IF reply.kind = "error"
      THEN [ wc |-> c, ret |-> "", err |-> ErrTransport, reqs |-> reqs ]
      ELSE IF reply.status # StatusOK
      THEN [ wc |-> [ c EXCEPT !.auth = "" ], ret |-> "",
             err |-> "failed to set value: status " \o Itoa(reply.status), reqs |-> reqs ]
      ELSE [ wc |-> c, ret |-> "", err |-> "nil", reqs |-> reqs ]

\* SetValue taking every status from 200 to 299 for an accepted write.
SetValueAccepts2xx(c, parameter, reply) ==
  LET parts  == Split(parameter, "=")
      params == Set(Set(NewValues, "auth", c.auth), parts[1], parts[2])
      reqs   == << URL(c.baseURL, "/config/xml.cgi", params) >>
  IN  IF reply.kind = "error"
      THEN [ wc |-> c, ret |-> "", err |-> ErrTransport, reqs |-> reqs ]
      ELSE IF reply.status < 200 \/ reply.status > 299
      THEN [ wc |-> c, ret |-> "",
             err |-> "failed to set value: status " \o Itoa(reply.status), reqs |-> reqs ]
      ELSE [ wc |-> c, ret |-> "", err |-> "nil", reqs |-> reqs ]

\* SetValue indexes the two first parts of the split: a parameter without
\* "=" is outside its documented format (the index panics).
SetValue(c, parameter, reply) ==
  LET parts  == Split(parameter, "=")
      params == Set(Set(NewValues, "auth", c.auth), parts[1], parts[2])
      reqs   == << URL(c.baseURL, "/config/xml.cgi", params) >>
  IN  IF reply.kind = "error"
      THEN [ wc |-> c, ret |-> "", err |-> ErrTransport, reqs |-> reqs ]
      ELSE IF reply.status # StatusOK
      THEN [ wc |-> c, ret |-> "",
             err |-> "failed to set value: status " \o Itoa(reply.status), reqs |-> reqs ]
      ELSE [ wc |-> c, ret |-> "", err |-> "nil", reqs |-> reqs ]

\* The loop of SetMultipleValues keeping the first value given for an
\* identifier instead of the last.
RECURSIVE SetPairsKeepFirst(_, _)
SetPairsKeepFirst(params, parameters) ==
  IF Len(parameters) = 0 THEN params
  ELSE LET parts == Split(Head(parameters), "=")
       IN  SetPairsKeepFirst(IF Len(parts) = 2 /\ parts[1] \notin DOMAIN params
                             THEN Set(params, parts[1], parts[2]) ELSE params,
                             Tail(parameters))

\* The loop of SetMultipleValues over parameters.
RECURSIVE SetPairs(_, _)
SetPairs(params, parameters) ==
  IF Len(parameters) = 0 THEN params
  ELSE LET parts == Split(Head(parameters), "=")
       IN  SetPairs(IF Len(parts) = 2 THEN Set(params, parts[1], parts[2]) ELSE params,
                    Tail(parameters))

\* SetMultipleValues taking every 2xx status for success.
SetMultipleValuesAccepts2xx(c, parameters, reply) ==
  LET params == SetPairs(Set(NewValues, "auth", c.auth), parameters)
      reqs   == << URL(c.baseURL, "/config/xml.cgi", params) >>
  IN  IF reply.kind = "error"
      THEN [ wc |-> c, ret |-> "", err |-> ErrTransport, reqs |-> reqs ]
      ELSE IF reply.status < 200 \/ reply.status > 299
      THEN [ wc |-> c, ret |-> "",
             err |-> "failed to set values: status " \o Itoa(reply.status), reqs |-> reqs ]
      ELSE [ wc |-> c, ret |-> "", err |-> "nil", reqs |-> reqs ]

\* SetMultipleValues sending the request a second time when the device
\* rejects it.
SetMultipleValuesRetry(c, parameters, reply) ==
  LET params == SetPairs(Set(NewValues, "auth", c.auth), parameters)
      reqs   == << URL(c.baseURL, "/config/xml.cgi", params) >>
  IN  IF reply.kind = "error"
      THEN [ wc |-> c, ret |-> "", err |-> ErrTransport, reqs |-> reqs ]
      ELSE IF reply.status # StatusOK
      THEN [ wc |-> c, ret |-> "",
             err |-> "failed to set values: status " \o Itoa(reply.status),
             reqs |-> reqs \o reqs ]
      ELSE [ wc |-> c, ret |-> "", err |-> "nil", reqs |-> reqs ]

SetMultipleValues(c, parameters, reply) ==
  LET params == SetPairs(Set(NewValues, "auth", c.auth), parameters)
      reqs   == << URL(c.baseURL, "/config/xml.cgi", params) >>
  IN  IF reply.kind = "error"
      THEN [ wc |-> c, ret |-> "", err |-> ErrTransport, reqs |-> reqs ]
      ELSE IF reply.status # StatusOK
      THEN [ wc |-> c, ret |-> "",
             err |-> "failed to set values: status " \o Itoa(reply.status), reqs |-> reqs ]
      ELSE [ wc |-> c, ret |-> "", err |-> "nil", reqs |-> reqs ]

(***************************************************************************)
(* The state machine: one client, used by one caller at a time.            *)
(*   wc    the WebClient                                                   *)
(*   last  the last call: operation, arguments, the token held when it     *)
(*         was made, the device's answer, what it returned, what it sent   *)
(*   calls the number of calls of the five operations that talk to the     *)
(*         device                                                          *)
(*   sent  the number of requests the device was sent                      *)
(* The other variables belong to the specifications further down and stay  *)
(* as they are here:                                                       *)
(*   threads, stores, wire  the goroutines that share one client, the      *)
(*         stores to wc.auth and the request sent last (SpecConcurrent)     *)
(*   input, output  the argument and the result of a utility function      *)
(*         (SpecTemperature, SpecIP, SpecParse)                             *)
(*   srv, heap, procs  the caching server: its fields, the DeviceData      *)
(*         values allocated so far and its goroutines (SpecSnapshot,       *)
(*         SpecServer)                                                     *)
(*   sm    the SessionManager (SpecSession)                                *)
(***************************************************************************)
VARIABLES wc, last, calls, sent, threads, stores, wire, input, output, srv, heap, procs,
          sm

vars ==
  << wc, last, calls, sent, threads, stores, wire, input, output, srv, heap, procs, sm >>

\* One caller at a time: no goroutines.
NoThreads == threads = << >> /\ stores = << >> /\ wire = << >>

\* No utility function is applied.
NoFunction == input = << >> /\ output = << >>

\* No caching server and no SessionManager.
NoServer == srv = << >> /\ heap = << >> /\ procs = << >> /\ sm = << >>

server == << srv, heap, procs, sm >>

MaxCalls == 3

NoReply == [ kind |-> "none", status |-> 0, body |-> "", readErr |-> FALSE ]

Call(op, password, parameters, sessionID, reply, before, r) ==
  [ op |-> op, password |-> password, parameters |-> parameters, sessionID |-> sessionID,
    reply |-> reply, before |-> before, ret |-> r.ret, err |-> r.err, reqs |-> r.reqs ]

Local(c) == [ wc |-> c, ret |-> "", err |-> "nil", reqs |-> << >> ]

Init ==
  /\ wc = NewWebClient(DeviceIP)
  /\ last = Call("NewWebClient", "", << >>, "", NoReply, "", Local(wc))
  /\ calls = 0
  /\ sent = 0
  /\ NoThreads
  /\ NoFunction
  /\ NoServer

\* A call of one of the five operations, with result r.
Talk(op, password, parameters, reply, r) ==
  /\ calls < MaxCalls
  /\ wc' = r.wc
  /\ last' = Call(op, password, parameters, "", reply, wc.auth, r)
  /\ calls' = calls + 1
  /\ sent' = sent + Len(r.reqs)
  /\ UNCHANGED << threads, stores, wire, input, output, server >>

DoLogin ==
  \E password \in Passwords, nonce \in generateRandomString(3), reply \in LoginReplies :
    Talk("Login", password, << >>, reply, Login(wc, password, nonce, reply))

DoGetData ==
  \E nonce \in generateRandomString(2), reply \in DataReplies :
    Talk("GetData", "", << >>, reply, GetData(wc, nonce, reply))

DoGetAlarms ==
  \E nonce \in generateRandomString(2), reply \in DataReplies :
    Talk("GetAlarms", "", << >>, reply, GetAlarms(wc, nonce, reply))

DoSetValue ==
  \E parameter \in Parameters, reply \in WriteReplies :
    Talk("SetValue", "", << parameter >>, reply, SetValue(wc, parameter, reply))

DoSetMultipleValues ==
  \E parameters \in ParameterLists, reply \in WriteReplies :
    Talk("SetMultipleValues", "", parameters, reply,
         SetMultipleValues(wc, parameters, reply))

DoSetSessionID ==
  \E sessionID \in SessionIDs :
    /\ wc' = SetSessionID(wc, sessionID)
    /\ last' = Call("SetSessionID", "", << >>, sessionID, NoReply, wc.auth, Local(wc'))
    /\ UNCHANGED << calls, sent, threads, stores, wire, input, output, server >>

DoLogout ==
  /\ wc' = Logout(wc)
  /\ last' = Call("Logout", "", << >>, "", NoReply, wc.auth, Local(wc'))
  /\ UNCHANGED << calls, sent, threads, stores, wire, input, output, server >>

Next ==
  \/ DoLogin
  \/ DoGetData
  \/ DoGetAlarms
  \/ DoSetValue
  \/ DoSetMultipleValues
  \/ DoSetSessionID
  \/ DoLogout

Spec == Init /\ [][Next]_vars

(***************************************************************************)
(* One client shared by goroutines, as the handlers of the HTTP server     *)
(* share s.client (net/http runs every handler in a goroutine of its own). *)
(* WebClient holds no lock, so nothing orders one goroutine's accesses to  *)
(* wc.auth with another's.  wc.auth is a string: two words, the pointer to *)
(* its bytes and its length.  A load by goroutine g yields, for each word  *)
(* on its own, the word of a store g may observe: g's own last store (the  *)
(* store made before the goroutines were started, when g made none) or any *)
(* store of another goroutine.                                             *)
(*   stores   the stores to wc.auth in the order they reached memory       *)
(*   wc.auth  the value stored last                                        *)
(*   threads  per goroutine: the method it is in (op), where in it (pc),   *)
(*            what it loaded or received (has, token), the values stored   *)
(*            in wc.auth since its call began (held), its calls so far (n) *)
(*   wire     the request sent last                                        *)
(***************************************************************************)
Goroutines == { "g1", "g2" }

MaxCallsEach == 2

\* What a goroutine starts from: a fresh client, or one that logged in
\* before the goroutines were started (StartServer authenticates first).
StartSessions == { "", "12345" }

ConcurrentLoginReplies ==
  { TransportFailure,
    Response(200, "denied"),
    Response(200, Render(RootDoc(XmlDecl, " lng=\"0\"", "15736", ""))),
    Response(200, Render(RootDoc(XmlDeclUTF8, " lng=\"0\"", "60588", ""))) }

Idle == [ op |-> "none", pc |-> "idle", has |-> FALSE, token |-> "", held |-> {}, n |-> 0 ]

NoRequest == [ by |-> "none", op |-> "none", query |-> NewValues, held |-> {} ]

\* The stores to wc.auth that a load by goroutine g may observe.
Observable(g) ==
  LET own  == { i \in DOMAIN stores : stores[i].by = g }
      base == IF own = {} THEN 1 ELSE MaxOf(own)
  IN  { stores[i] : i \in { base } \cup
                           { j \in DOMAIN stores : stores[j].by \notin { g, "main" } } }

\* Bytes that may lie in memory behind the bytes of a string.
StrayBytes == { "0", "<" }

\* The string whose pointer word comes from store a and whose length word
\* from store b, when it is read: a's bytes cut to b's length; a's bytes and
\* what lies behind them when b is longer; a fault when a has no bytes at all
\* (a nil pointer) but b has a length.
Assemble(a, b, stray) ==
  IF Len(b.value) <= Len(a.value)
  THEN [ ok |-> TRUE, value |-> Slice(a.value, 0, Len(b.value)) ]
  ELSE IF a.value = ""
  THEN [ ok |-> FALSE, value |-> "" ]
  ELSE [ ok |-> TRUE,
         value |-> a.value \o Slice(stray \o stray \o stray \o stray \o stray, 0,
                                    Len(b.value) - Len(a.value)) ]

\* The outcomes of goroutine g loading wc.auth and reading its bytes.
LoadAuth(g) ==
  { Assemble(a, b, stray) : a \in Observable(g), b \in Observable(g), stray \in StrayBytes }

\* The outcomes of wc.auth != "" in goroutine g: a test of the length word.
LoadAuthNotEmpty(g) == { Len(b.value) # 0 : b \in Observable(g) }

\* Every call in progress notes the value stored now.
Noting(ts, value) ==
  [ h \in DOMAIN ts |->
      IF ts[h].pc \in { "idle", "panic" } THEN ts[h]
      ELSE [ ts[h] EXCEPT !.held = @ \cup { value } ] ]

InitConcurrent ==
  /\ \E s \in StartSessions :
       /\ wc = SetSessionID(NewWebClient(DeviceIP), s)
       /\ stores = << [ by |-> "main", value |-> s ] >>
  /\ last = Call("NewWebClient", "", << >>, "", NoReply, "", Local(wc))
  /\ calls = 0
  /\ sent = 0
  /\ threads = [ g \in Goroutines |-> Idle ]
  /\ wire = NoRequest
  /\ NoFunction
  /\ NoServer

Begins(g) == threads[g].pc = "idle" /\ threads[g].n < MaxCallsEach

Begun(g, op, pc, has, token) ==
  [ op |-> op, pc |-> pc, has |-> has, token |-> token, held |-> { wc.auth },
    n |-> threads[g].n + 1 ]

Returned(g) == [ Idle EXCEPT !.n = threads[g].n ]

\* Login up to the answer of the device: the request is sent, the answer
\* read, the session ID extracted and validated.
LoginGet(g) ==
  /\ Begins(g)
  /\ \E nonce \in generateRandomString(3), reply \in ConcurrentLoginReplies :
       LET r == Login(wc, "6378", nonce, reply)
       IN  /\ threads' = [ threads EXCEPT ![g] =
                             IF r.err = "nil" THEN Begun(g, "Login", "store", TRUE, r.ret)
                             ELSE Returned(g) ]
           /\ wire' = [ by |-> g, op |-> "Login", query |-> r.reqs[1].query, held |-> {} ]
  /\ UNCHANGED << wc, last, calls, sent, stores, input, output, server >>

\* wc.auth = sessionID
LoginStore(g) ==
  /\ threads[g].op = "Login"
  /\ threads[g].pc = "store"
  /\ stores' = Append(stores, [ by |-> g, value |-> threads[g].token ])
  /\ wc' = SetSessionID(wc, threads[g].token)
  /\ threads' = [ Noting(threads, threads[g].token) EXCEPT ![g] = Returned(g) ]
  /\ UNCHANGED << last, calls, sent, wire, input, output, server >>

\* GetData: if wc.auth != ""
GetDataCheck(g) ==
  /\ Begins(g)
  /\ \E has \in LoadAuthNotEmpty(g) :
       threads' = [ threads EXCEPT ![g] =
                      Begun(g, "GetData", IF has THEN "load" ELSE "send", has, "") ]
  /\ UNCHANGED << wc, last, calls, sent, stores, wire, input, output, server >>

\* GetData: params.Set("auth", wc.auth)
GetDataLoad(g) ==
  /\ threads[g].op = "GetData"
  /\ threads[g].pc = "load"
  /\ \E v \in LoadAuth(g) :
       threads' = [ threads EXCEPT ![g] =
                      IF v.ok THEN [ @ EXCEPT !.pc = "send", !.token = v.value ]
                      ELSE [ @ EXCEPT !.pc = "panic" ] ]
  /\ UNCHANGED << wc, last, calls, sent, stores, wire, input, output, server >>

\* GetData: wc.httpClient.Get(...) and the return
GetDataSend(g) ==
  /\ threads[g].op = "GetData"
  /\ threads[g].pc = "send"
  /\ \E nonce \in generateRandomString(2) :
       LET auth == IF threads[g].has THEN Set(NewValues, "auth", threads[g].token)
                   ELSE NewValues
       IN  wire' = [ by |-> g, op |-> "GetData", query |-> Set(auth, "rnd", nonce),
                     held |-> threads[g].held ]
  /\ threads' = [ threads EXCEPT ![g] = Returned(g) ]
  /\ UNCHANGED << wc, last, calls, sent, stores, input, output, server >>

\* SetValue: params.Set("auth", wc.auth)
SetValueLoad(g) ==
  /\ Begins(g)
  /\ \E v \in LoadAuth(g) :
       threads' = [ threads EXCEPT ![g] =
                      IF v.ok THEN Begun(g, "SetValue", "send", TRUE, v.value)
                      ELSE [ Begun(g, "SetValue", "panic", TRUE, "") EXCEPT !.held = {} ] ]
  /\ UNCHANGED << wc, last, calls, sent, stores, wire, input, output, server >>

\* SetValue: wc.httpClient.Get(...) and the return
SetValueSend(g) ==
  /\ threads[g].op = "SetValue"
  /\ threads[g].pc = "send"
  /\ \E parameter \in { "H11021=21" } :
       LET parts == Split(parameter, "=")
       IN  wire' = [ by |-> g, op |-> "SetValue",
                     query |-> Set(Set(NewValues, "auth", threads[g].token),
                                   parts[1], parts[2]),
                     held |-> threads[g].held ]
  /\ threads' = [ threads EXCEPT ![g] = Returned(g) ]
  /\ UNCHANGED << wc, last, calls, sent, stores, input, output, server >>

NextConcurrent ==
  \E g \in Goroutines :
    \/ LoginGet(g)
    \/ LoginStore(g)
    \/ GetDataCheck(g)
    \/ GetDataLoad(g)
    \/ GetDataSend(g)
    \/ SetValueLoad(g)
    \/ SetValueSend(g)

SpecConcurrent == InitConcurrent /\ [][NextConcurrent]_vars

(***************************************************************************)
(* utils.go: decodeTemperature.  A float64 is modelled by the rational it  *)
(* holds, num/den with den > 0: the quotients of integers below 2^17 by    *)
(* 10.0 round to different float64 values for different rationals, and to  *)
(* the values of the decimal literals 0.1, 130.0, ..., so that == and <=   *)
(* on them are the comparisons of the rationals.                           *)
(***************************************************************************)
Float(num, den) == [ num |-> num, den |-> den ]

FloatEq(x, y) == x.num * y.den = y.num * x.den

FloatLeq(x, y) == x.num * y.den <= y.num * x.den

\* int(x) of a float64: the fraction is cut off, towards zero.
IntOf(x) == IF x.num >= 0 THEN x.num \div x.den ELSE -((-x.num) \div x.den)

\* float64(n)
Float64(n) == Float(n, 1)

\* x / 10.0
Div10(x) == Float(x.num, x.den * 10)

\* decodeTemperature without the upper limit of the positive range.
decodeTemperatureUnlimited(rawValue) ==
  LET rawInt == IntOf(rawValue)
  IN  IF rawInt >= 65036 THEN Div10(Float64(rawInt - 65536))
      ELSE IF rawInt >= 1 THEN Div10(Float64(rawInt))
      ELSE Float(0, 1)

decodeTemperature(rawValue) ==
  LET rawInt == IntOf(rawValue)
  IN  IF rawInt >= 65036 THEN Div10(Float64(rawInt - 65536))
      ELSE IF rawInt >= 1 /\ rawInt <= 1300 THEN Div10(Float64(rawInt))
      ELSE Float(0, 1)

\* The registers of the device hold 16 bits.
MaxRaw == 65535

RawValues == 0..MaxRaw

\* The state of a specification that applies utility functions: the session
\* client is not used.
NoClient ==
  /\ wc = NewWebClient(DeviceIP)
  /\ last = Call("NewWebClient", "", << >>, "", NoReply, "", Local(wc))
  /\ calls = 0
  /\ sent = 0
  /\ NoThreads

client == << wc, last, calls, sent, threads, stores, wire >>

InitTemperature ==
  /\ NoClient
  /\ NoServer
  /\ \E raw \in RawValues : input = [ op |-> "decodeTemperature", rawValue |-> Float64(raw) ]
  /\ output = << >>

DoDecodeTemperature ==
  /\ input.op = "decodeTemperature"
  /\ output = << >>
  /\ output' = [ celsius |-> decodeTemperature(input.rawValue) ]
  /\ UNCHANGED << client, server, input >>

NextTemperature == DoDecodeTemperature

SpecTemperature == InitTemperature /\ [][NextTemperature]_vars

(***************************************************************************)
(* utils.go: IPParameterEncoder and IPParameterDecoder.                    *)
(***************************************************************************)
\* The value of a string of decimal digits.
RECURSIVE DigitsValue(_)
DigitsValue(s) ==
  IF Len(s) = 0 THEN 0
  ELSE DigitsValue(Slice(s, 0, Len(s) - 1)) * 10 + DigitVal(CharAt(s, Len(s) - 1))

\* val, _ := strconv.Atoi(p): the number, and 0 for a string that is none
\* (the strings the model converts have fewer digits than the largest int).
Atoi(s) ==
  IF ~AtoiOk(s) THEN 0
  ELSE IF Head(s) = "-" THEN -DigitsValue(Tail(s))
  ELSE IF Head(s) = "+" THEN DigitsValue(Tail(s))
  ELSE DigitsValue(s)

\* strconv.Itoa(n), also below zero.
FormatInt(n) == IF n < 0 THEN "-" \o Itoa(-n) ELSE Itoa(n)

\* x << 8, x >> 8 and x & 0xFF on an int.
Shl8(x) == x * 256

Shr8(x) == x \div 256

AndFF(x) == x % 256

\* The map IPParameterEncoder returns; nil when it returns none.
NilMap == [ k \in {} |-> "" ]

\* IPParameterEncoder adding the third octet in place of the fourth.
IPParameterEncoderIndexSlip(ip) ==
  LET parts  == Split(ip, ".")
      octets == [ i \in 1..4 |-> Atoi(parts[i]) ]
      low    == octets[1] + Shl8(octets[2])
      high   == octets[3] + Shl8(octets[3])
  IN  IF Len(parts) # 4 THEN NilMap
      ELSE [ k \in { "low", "high" } |->
               IF k = "low" THEN FormatInt(low) ELSE FormatInt(high) ]

IPParameterEncoder(ip) ==
  LET parts  == Split(ip, ".")
      octets == [ i \in 1..4 |-> Atoi(parts[i]) ]
      low    == octets[1] + Shl8(octets[2])
      high   == octets[3] + Shl8(octets[4])
  IN  IF Len(parts) # 4 THEN NilMap
      ELSE [ k \in { "low", "high" } |->
               IF k = "low" THEN FormatInt(low) ELSE FormatInt(high) ]

\* IPParameterDecoder shifting by four bits.
IPParameterDecoderNibble(low, high) ==
  LET octet1 == AndFF(low)
      octet2 == AndFF(low \div 16)
      octet3 == AndFF(high)
      octet4 == AndFF(high \div 16)
  IN  FormatInt(octet1) \o "." \o FormatInt(octet2) \o "." \o
      FormatInt(octet3) \o "." \o FormatInt(octet4)

IPParameterDecoder(low, high) ==
  LET octet1 == AndFF(low)
      octet2 == AndFF(Shr8(low))
      octet3 == AndFF(high)
      octet4 == AndFF(Shr8(high))
  IN  FormatInt(octet1) \o "." \o FormatInt(octet2) \o "." \o
      FormatInt(octet3) \o "." \o FormatInt(octet4)

\* The octets the model builds addresses from, the addresses, and strings
\* that are no dotted quads.
OctetSamples == { 0, 1, 9, 10, 99, 100, 168, 192, 255 }

Quad(o) == Itoa(o[1]) \o "." \o Itoa(o[2]) \o "." \o Itoa(o[3]) \o "." \o Itoa(o[4])

Octets == [ 1..4 -> OctetSamples ]

NoQuads == { "", "192.168.1", "192.168.1.100.7", "a.b.c.d", "192.168.001.010" }

\* The 16-bit values of the device's two IP parameters.
WordSamples == { a + 256 * b : a \in OctetSamples, b \in OctetSamples }

\* input: the function applied first and its argument (octets: the numbers
\* the address was written from); output: the results so far, one per
\* function applied.  As ExampleIPAddressHandling does, the result of one
\* function is handed to the other: the encoder's two strings are read as
\* decimal numbers, the decoder's address is encoded as it is.
InitIP ==
  /\ NoClient
  /\ NoServer
  /\ \/ \E o \in Octets :
          input = [ op |-> "IPParameterEncoder", ip |-> Quad(o), octets |-> o ]
     \/ \E ip \in NoQuads :
          input = [ op |-> "IPParameterEncoder", ip |-> ip, octets |-> << >> ]
     \/ \E low \in WordSamples, high \in WordSamples :
          input = [ op |-> "IPParameterDecoder", low |-> low, high |-> high ]
  /\ output = << >>

Encoded(ip) == [ op |-> "IPParameterEncoder", ip |-> ip, params |-> IPParameterEncoder(ip) ]

Decoded(low, high) ==
  [ op |-> "IPParameterDecoder", low |-> low, high |-> high,
    ip |-> IPParameterDecoder(low, high) ]

DoIPParameterEncoder ==
  /\ \/ /\ output = << >>
        /\ input.op = "IPParameterEncoder"
        /\ output' = << Encoded(input.ip) >>
     \/ /\ Len(output) = 1
        /\ output[1].op = "IPParameterDecoder"
        /\ output' = Append(output, Encoded(output[1].ip))
  /\ UNCHANGED << client, server, input >>

DoIPParameterDecoder ==
  /\ \/ /\ output = << >>
        /\ input.op = "IPParameterDecoder"
        /\ output' = << Decoded(input.low, input.high) >>
     \/ /\ Len(output) = 1
        /\ output[1].op = "IPParameterEncoder"
        /\ output[1].params # NilMap
        /\ output' = Append(output, Decoded(Atoi(output[1].params["low"]),
                                            Atoi(output[1].params["high"])))
  /\ UNCHANGED << client, server, input >>

NextIP == DoIPParameterEncoder \/ DoIPParameterDecoder

SpecIP == InitIP /\ [][NextIP]_vars

(***************************************************************************)
(* encoding/xml as ParseXMLData uses it (xml.Unmarshal, strict): the       *)
(* tokens of a document and the errors of their syntax.  The documents of  *)
(* the model hold start, end and empty-element tags, attributes, text,     *)
(* the XML declaration, comments and the five predefined entities.         *)
(***************************************************************************)
\* The byte at index i; none behind the end.
At(s, i) == IF i >= 0 /\ i < Len(s) THEN CharAt(s, i) ELSE ""

\* strings.Index from index pos on; i is the index in the rest.
IndexFromOffset(pos, i) == IF i = -1 THEN -1 ELSE pos + i

IndexFrom(s, sub, pos) == IndexFromOffset(pos, Index(SliceFrom(s, pos), sub))

XMLSpaces == { " ", "\t", "\n", "\r" }

\* d.space(): the index of the first byte from pos on that is no space.
SkipSpace(s, pos) ==
  MinOf({ i \in pos..Len(s) : i = Len(s) \/ CharAt(s, i) \notin XMLSpaces })

NameBytes == "ABCDEFGHIJKLMNOPQRSTUVWXYZabcdefghijklmnopqrstuvwxyz0123456789_:.-"

IsNameByte(c) == c # "" /\ Index(NameBytes, c) # -1

\* d.name(): the index behind the name that starts at pos.
NameEnd(s, pos) ==
  MinOf({ i \in pos..Len(s) : i = Len(s) \/ ~IsNameByte(CharAt(s, i)) })

\* isName: a name does not start with a digit, a dot or a hyphen.
IsName(name) == name # "" /\ Index("0123456789.-", At(name, 0)) = -1

\* The predefined entities.
EntityNames == { "lt", "gt", "amp", "apos", "quot" }

EntityText(name) ==
  CASE name = "lt" -> "<"
    [] name = "gt" -> ">"
    [] name = "amp" -> "&"
    [] name = "apos" -> "'"
    [] name = "quot" -> "\""

\* d.text(): the text with its entities replaced; a '&' that starts no
\* entity is an error.  amp: the index of the first '&', semi: of the ';'
\* behind it, rest: the text behind the entity, unescaped.
RECURSIVE Unescape(_)
UnescapeRest(head, name, rest) ==
  [ ok |-> rest.ok, text |-> head \o EntityText(name) \o rest.text ]

UnescapeEntity(text, amp, semi) ==
  IF semi = -1 \/ Slice(text, amp + 1, semi) \notin EntityNames
  THEN [ ok |-> FALSE, text |-> "" ]
  ELSE UnescapeRest(Slice(text, 0, amp), Slice(text, amp + 1, semi),
                    Unescape(SliceFrom(text, semi + 1)))

UnescapeFrom(text, amp) ==
  IF amp = -1 THEN [ ok |-> TRUE, text |-> text ]
  ELSE UnescapeEntity(text, amp, IndexFrom(text, ";", amp + 1))

Unescape(text) == UnescapeFrom(text, Index(text, "&"))

XMLError(pos) == [ kind |-> "error", name |-> "", attrs |-> << >>, empty |-> FALSE, next |-> pos ]

\* The attributes of a start tag from pos on, up to its '>' or '/>':
\* name = "value" or name = 'value', the value without '<'.  p: the start
\* of the name, e: its end, eq: the index of '=', q: of the opening quote,
\* close: of the closing quote.
RECURSIVE Attrs(_, _, _)
AttrText(s, name, q, close, value, acc) ==
  IF ~value.ok THEN XMLError(q)
  ELSE Attrs(s, close + 1, Append(acc, [ name |-> name, value |-> value.text ]))

AttrClose(s, name, q, close, acc) ==
  IF close = -1 \/ Index(Slice(s, q + 1, close), "<") # -1 THEN XMLError(q)
  ELSE AttrText(s, name, q, close, Unescape(Slice(s, q + 1, close)), acc)

AttrQuote(s, name, q, acc) ==
  IF At(s, q) \notin { "\"", "'" } THEN XMLError(q)
  ELSE AttrClose(s, name, q, IndexFrom(s, At(s, q), q + 1), acc)

AttrEquals(s, name, eq, acc) ==
  IF At(s, eq) # "=" THEN XMLError(eq)
  ELSE AttrQuote(s, name, SkipSpace(s, eq + 1), acc)

AttrName(s, p, e, acc) ==
  IF e = p \/ ~IsName(Slice(s, p, e)) THEN XMLError(p)
  ELSE AttrEquals(s, Slice(s, p, e), SkipSpace(s, e), acc)

AttrsAt(s, p, acc) ==
  IF At(s, p) = "" THEN XMLError(p)
  ELSE IF At(s, p) = "/"
  THEN IF At(s, p + 1) = ">"
       THEN [ kind |-> "start", name |-> "", attrs |-> acc, empty |-> TRUE, next |-> p + 2 ]
       ELSE XMLError(p)
  ELSE IF At(s, p) = ">"
  THEN [ kind |-> "start", name |-> "", attrs |-> acc, empty |-> FALSE, next |-> p + 1 ]
  ELSE AttrName(s, p, NameEnd(s, p), acc)

Attrs(s, pos, acc) == AttrsAt(s, SkipSpace(s, pos), acc)

\* procInst(param, s): the quoted value of param in an XML declaration.
procInstUpTo(v, close) == IF close = -1 THEN "" ELSE Slice(v, 1, close)

procInstQuoted(v) ==
  IF v = "" \/ At(v, 0) \notin { "\"", "'" } THEN ""
  ELSE procInstUpTo(v, IndexFrom(v, At(v, 0), 1))

procInstAt(param, s, idx) ==
  IF idx = -1 THEN "" ELSE procInstQuoted(SliceFrom(s, idx + Len(param) + 1))

procInst(param, s) == procInstAt(param, s, Index(s, param \o "="))

\* strings.EqualFold(enc, "utf-8")
IsUTF8(enc) ==
  /\ Len(enc) = 5
  /\ At(enc, 0) \in { "u", "U" }
  /\ At(enc, 1) \in { "t", "T" }
  /\ At(enc, 2) \in { "f", "F" }
  /\ Slice(enc, 3, 5) = "-8"

\* The declaration <?xml ...?> must state version 1.0 if it states one, and
\* no encoding but UTF-8 (no CharsetReader is set).
DeclarationOk(ver, enc) == (ver = "" \/ ver = "1.0") /\ (enc = "" \/ IsUTF8(enc))

\* <?target ...?>; e: the end of the target, close: the index of '?>'.
ProcInstClose(s, pos, e, close) ==
  IF e = pos + 2 \/ close = -1 THEN XMLError(pos)
  ELSE IF /\ Slice(s, pos + 2, e) = "xml"
          /\ ~DeclarationOk(procInst("version", Slice(s, e, close)),
                            procInst("encoding", Slice(s, e, close)))
  THEN XMLError(pos)
  ELSE [ kind |-> "skip", name |-> Slice(s, pos + 2, e), attrs |-> << >>,
         empty |-> FALSE, next |-> close + 2 ]

ProcInstToken(s, pos) ==
  ProcInstClose(s, pos, NameEnd(s, pos + 2), IndexFrom(s, "?>", NameEnd(s, pos + 2)))

\* <!-- ... --> or <! ... >; close: the index of the closing mark, width
\* bytes wide.
BangClose(pos, close, width) ==
  IF close = -1 THEN XMLError(pos)
  ELSE [ kind |-> "skip", name |-> "", attrs |-> << >>, empty |-> FALSE,
         next |-> close + width ]

BangToken(s, pos) ==
  IF Slice(s, pos, pos + 4) = "<!--"
  THEN BangClose(pos, IndexFrom(s, "-->", pos + 4), 3)
  ELSE BangClose(pos, IndexFrom(s, ">", pos + 2), 1)

\* </name>; e: the end of the name, p: the index behind the space after it.
EndClose(s, pos, name, p) ==
  IF At(s, p) # ">" THEN XMLError(pos)
  ELSE [ kind |-> "end", name |-> name, attrs |-> << >>, empty |-> FALSE, next |-> p + 1 ]

EndName(s, pos, e) ==
  IF e = pos + 2 \/ ~IsName(Slice(s, pos + 2, e)) THEN XMLError(pos)
  ELSE EndClose(s, pos, Slice(s, pos + 2, e), SkipSpace(s, e))

EndToken(s, pos) == EndName(s, pos, NameEnd(s, pos + 2))

\* <name attributes> or <name attributes/>; e: the end of the name, a: the
\* attributes behind it.
StartAttrs(name, a) == IF a.kind = "error" THEN a ELSE [ a EXCEPT !.name = name ]

StartName(s, pos, e) ==
  IF e = pos + 1 \/ ~IsName(Slice(s, pos + 1, e)) THEN XMLError(pos)
  ELSE StartAttrs(Slice(s, pos + 1, e), Attrs(s, e, << >>))

StartToken(s, pos) == StartName(s, pos, NameEnd(s, pos + 1))

\* Text up to the next '<', or to the end; lt: the index of that '<'.
TextEnd(s, lt) == IF lt = -1 THEN Len(s) ELSE lt

TextUpTo(s, pos, e) ==
  IF Index(Slice(s, pos, e), "]]>") # -1 \/ ~Unescape(Slice(s, pos, e)).ok
  THEN XMLError(pos)
  ELSE [ kind |-> "text", name |-> "", attrs |-> << >>, empty |-> FALSE, next |-> e ]

TextToken(s, pos) == TextUpTo(s, pos, TextEnd(s, IndexFrom(s, "<", pos)))

\* d.rawToken(): the token that starts at pos.
RawToken(s, pos) ==
  IF pos >= Len(s)
  THEN [ kind |-> "eof", name |-> "", attrs |-> << >>, empty |-> FALSE, next |-> pos ]
  ELSE IF At(s, pos) # "<" THEN TextToken(s, pos)
  ELSE IF At(s, pos + 1) = "" THEN XMLError(pos)
  ELSE IF At(s, pos + 1) = "/" THEN EndToken(s, pos)
  ELSE IF At(s, pos + 1) = "?" THEN ProcInstToken(s, pos)
  ELSE IF At(s, pos + 1) = "!" THEN BangToken(s, pos)
  ELSE StartToken(s, pos)

(***************************************************************************)
(* utils.go: ParseXMLData.                                                 *)
(***************************************************************************)
\* The four sections the struct of ParseXMLData names, in the order of its
\* four loops.
SectionNames == << "INTEGER_R", "STRING_R", "FLOAT_R", "ENUM_R" >>

\* The value of the attribute a field is tagged with: of its last
\* occurrence, and empty when the tag has none.
RECURSIVE AttrValue(_, _)
AttrValue(attrs, name) ==
  IF Len(attrs) = 0 THEN ""
  ELSE IF attrs[Len(attrs)].name = name THEN attrs[Len(attrs)].value
  ELSE AttrValue(SubSeq(attrs, 1, Len(attrs) - 1), name)

Failed(err) == [ err |-> err, found |-> << >> ]

\* An element O in a section in RD5 in RD5WEB; stack: the elements open
\* around the start tag t.
IsItem(stack, t) ==
  /\ Len(stack) = 3
  /\ stack[1] = "RD5WEB"
  /\ stack[2] = "RD5"
  /\ \E k \in DOMAIN SectionNames : stack[3] = SectionNames[k]
  /\ t.name = "O"

\* The items found, with the one of the start tag t if it is one.
Keep(stack, found, t) ==
  IF IsItem(stack, t)
  THEN Append(found, [ section |-> stack[3], ID |-> AttrValue(t.attrs, "I"),
                       Value |-> AttrValue(t.attrs, "V") ])
  ELSE found

\* xml.Unmarshal into the struct: the first element must be RD5WEB; of its
\* content the elements O in a section in RD5 are kept, in the order of the
\* document, and everything else is skipped; it returns at the end tag of
\* the first element, or with the first error.  stack: the elements open at
\* pos; found: the elements O kept so far; t: the token at pos.
RECURSIVE Unmarshal(_, _, _, _)
UnmarshalToken(s, stack, found, t) ==
  CASE t.kind = "error" -> Failed("XML syntax error")
    [] t.kind = "eof" ->
         IF Len(stack) = 0 THEN Failed("EOF") ELSE Failed("XML syntax error: unexpected EOF")
    [] t.kind \in { "text", "skip" } -> Unmarshal(s, t.next, stack, found)
    [] t.kind = "end" ->
         IF Len(stack) = 0 \/ stack[Len(stack)] # t.name
         THEN Failed("XML syntax error: unexpected end element")
         ELSE IF Len(stack) = 1 THEN [ err |-> "nil", found |-> found ]
         ELSE Unmarshal(s, t.next, SubSeq(stack, 1, Len(stack) - 1), found)
    [] t.kind = "start" ->
         IF Len(stack) = 0 /\ t.name # "RD5WEB"
         THEN Failed("expected element type <RD5WEB> but have <" \o t.name \o ">")
         ELSE IF ~t.empty
         THEN Unmarshal(s, t.next, Append(stack, t.name), Keep(stack, found, t))
         ELSE IF Len(stack) = 0 THEN [ err |-> "nil", found |-> found ]
         ELSE Unmarshal(s, t.next, stack, Keep(stack, found, t))

Unmarshal(s, pos, stack, found) == UnmarshalToken(s, stack, found, RawToken(s, pos))

\* data.Items[item.ID] = item.Value
Assign(items, id, value) ==
  [ k \in (DOMAIN items) \cup { id } |-> IF k = id THEN value ELSE items[k] ]

\* One loop of ParseXMLData: the items of one section, in their order.
RECURSIVE Collect(_, _, _)
Collect(items, found, section) ==
  IF Len(found) = 0 THEN items
  ELSE Collect(IF Head(found).section = section
               THEN Assign(items, Head(found).ID, Head(found).Value) ELSE items,
               Tail(found), section)

\* The four loops, over the sections in the order given.
RECURSIVE CollectAll(_, _, _)
CollectAll(items, found, sections) ==
  IF Len(sections) = 0 THEN items
  ELSE CollectAll(Collect(items, found, Head(sections)), found, Tail(sections))

\* What ParseXMLData returns: (*DeviceData, error); nil is the nil pointer.
NilData == [ nil |-> TRUE, Items |-> << >> ]

DeviceData(items) == [ nil |-> FALSE, Items |-> items ]

\* ParseXMLData after xml.Unmarshal returned root, its loops over the
\* sections in the order given.
Snapshot(root, sections) ==
  IF root.err # "nil" THEN [ data |-> NilData, err |-> root.err ]
  ELSE [ data |-> DeviceData(CollectAll(<< >>, root.found, sections)), err |-> "nil" ]

\* An empty DeviceData together with the error.
SnapshotEmptyOnError(root, sections) ==
  IF root.err # "nil" THEN [ data |-> DeviceData(<< >>), err |-> root.err ]
  ELSE [ data |-> DeviceData(CollectAll(<< >>, root.found, sections)), err |-> "nil" ]

\* ParseXMLData running its loops from the enumerated section back to the
\* integer section.
ParseXMLDataReversed(xmlStr) ==
  Snapshot(Unmarshal(xmlStr, 0, << >>, << >>),
           << "ENUM_R", "FLOAT_R", "STRING_R", "INTEGER_R" >>)

\* ParseXMLData without the loop over the floating section.
ParseXMLDataNoFloat(xmlStr) ==
  Snapshot(Unmarshal(xmlStr, 0, << >>, << >>), << "INTEGER_R", "STRING_R", "ENUM_R" >>)

\* ParseXMLData returning an empty DeviceData together with the error.
ParseXMLDataEmptyOnError(xmlStr) ==
  SnapshotEmptyOnError(Unmarshal(xmlStr, 0, << >>, << >>), SectionNames)

\* ParseXMLData answering a document without items with an error.
SnapshotErrorWhenEmpty(root, sections) ==
  IF root.err = "nil" /\ root.found = << >>
  THEN [ data |-> NilData, err |-> "no items" ]
  ELSE Snapshot(root, sections)

ParseXMLDataErrorWhenEmpty(xmlStr) ==
  SnapshotErrorWhenEmpty(Unmarshal(xmlStr, 0, << >>, << >>), SectionNames)

ParseXMLData(xmlStr) == Snapshot(Unmarshal(xmlStr, 0, << >>, << >>), SectionNames)

(***************************************************************************)
(* The documents ParseXMLData is applied to.  A document is kept with what *)
(* it was written from: items, the elements O of its four sections in the  *)
(* order of the document, and flaw, what is wrong with it ("none" for a    *)
(* well-formed document with the root RD5WEB).                             *)
(***************************************************************************)
Item(section, id, value) == [ section |-> section, ID |-> id, Value |-> value ]

RenderItem(it) == "<O I=\"" \o it.ID \o "\" V=\"" \o it.Value \o "\"/>"

\* The items of one section, each after the separator sep.
RECURSIVE RenderItems(_, _)
RenderItems(items, sep) ==
  IF Len(items) = 0 THEN ""
  ELSE sep \o RenderItem(Head(items)) \o RenderItems(Tail(items), sep)

\* Sections, each a sequence of items of one section name, written one
\* after the other: without any space, or indented as the device and the
\* tests write them.
RECURSIVE RenderSections(_, _)
RenderSections(sections, pretty) ==
  IF Len(sections) = 0 THEN ""
  ELSE LET name == Head(sections)[1].section
       IN  IF pretty
           THEN "\n    <" \o name \o ">" \o RenderItems(Head(sections), "\n      ") \o
                "\n    </" \o name \o ">" \o RenderSections(Tail(sections), pretty)
           ELSE "<" \o name \o ">" \o RenderItems(Head(sections), "") \o
                "</" \o name \o ">" \o RenderSections(Tail(sections), pretty)

RenderDocument(sections, pretty) ==
  IF pretty
  THEN XmlDecl \o "\n<RD5WEB>\n  <RD5>" \o RenderSections(sections, pretty) \o
       "\n  </RD5>\n</RD5WEB>"
  ELSE "<RD5WEB><RD5>" \o RenderSections(sections, pretty) \o "</RD5></RD5WEB>"

RECURSIVE Flatten(_)
Flatten(sections) ==
  IF Len(sections) = 0 THEN << >> ELSE Head(sections) \o Flatten(Tail(sections))

IsSection(name) == \E k \in DOMAIN SectionNames : SectionNames[k] = name

Document(xmlStr, items, flaw) ==
  [ op |-> "ParseXMLData", xmlStr |-> xmlStr, items |-> items, flaw |-> flaw ]

Written(sections, pretty) ==
  Document(RenderDocument(sections, pretty),
           SelectSeq(Flatten(sections), LAMBDA it : IsSection(it.section)), "none")

\* The value the shared identifier X has in each section.
ValueIn ==
  [ name \in { "INTEGER_R", "STRING_R", "FLOAT_R", "ENUM_R", "BOOL_R" } |->
      CASE name = "INTEGER_R" -> "1"
        [] name = "STRING_R" -> "RD5"
        [] name = "FLOAT_R" -> "50.5"
        [] name = "ENUM_R" -> "2"
        [] name = "BOOL_R" -> "true" ]

\* The sections of the device in its order, each present or not; a present
\* section holds X and an identifier of its own.
SubsetDocuments ==
  { Written([ i \in 1..Len(SelectSeq(<< 1, 2, 3, 4 >>, LAMBDA k : k \in S)) |->
                LET k == SelectSeq(<< 1, 2, 3, 4 >>, LAMBDA j : j \in S)[i]
                IN  << Item(SectionNames[k], "X", ValueIn[SectionNames[k]]),
                       Item(SectionNames[k], "I1021" \o Itoa(k), "36") >> ],
            pretty) : S \in SUBSET (1..4), pretty \in BOOLEAN }

\* Two sections in any order, also the same section twice and a section
\* ParseXMLData does not know; X is in both.
PairDocuments ==
  { Written(<< << Item(a, "X", ValueIn[a]), Item(a, "I10215", "201") >>,
               << Item(b, "H11021", "21"), Item(b, "X", ValueIn[b] \o "0") >> >>,
            pretty) : a \in DOMAIN ValueIn, b \in DOMAIN ValueIn, pretty \in BOOLEAN }

\* The documents of the tests and of the device's other endpoints.
TestDocuments ==
  { Document(SampleData, << Item("INTEGER_R", "I10215", "201") >>, "none"),
    Document("<RD5WEB><RD5><INTEGER_R><O I=\"X\" V=\"1\"/></INTEGER_R><ENUM_R><O I=\"X\" V=\"2\"/></ENUM_R></RD5></RD5WEB>",
             << Item("INTEGER_R", "X", "1"), Item("ENUM_R", "X", "2") >>, "none"),
    Document("<?xml version=\"1.0\"?>\n<RD5WEB>\n  <RD5>\n    <INTEGER_R>\n      <O I=\"I10215\" V=\"201\"/>\n      <O I=\"I10211\" V=\"36\"/>\n    </INTEGER_R>\n    <FLOAT_R>\n      <O I=\"I10230\" V=\"50.5\"/>\n    </FLOAT_R>\n  </RD5>\n</RD5WEB>",
             << Item("INTEGER_R", "I10215", "201"), Item("INTEGER_R", "I10211", "36"),
                Item("FLOAT_R", "I10230", "50.5") >>, "none"),
    Document(SampleAlarms, << >>, "none"),
    Document("<RD5WEB/>", << >>, "none"),
    Document("<RD5WEB></RD5WEB>", << >>, "none"),
    Document(XmlDecl \o "<RD5WEB><RD5></RD5></RD5WEB>", << >>, "none"),
    Document("<RD5WEB><RD5><INTEGER_R></INTEGER_R><STRING_R/><FLOAT_R>\n</FLOAT_R><ENUM_R></ENUM_R></RD5></RD5WEB>",
             << >>, "none"),
    Document(XmlDeclUTF8 \o "<!-- RD5 --><RD5WEB><RD5><O I=\"I10215\" V=\"201\"/><INTEGER_R><O V='65526' I='I10211'></O><G><O I=\"I10215\" V=\"201\"/></G></INTEGER_R></RD5><INTEGER_R><O I=\"I10215\" V=\"201\"/></INTEGER_R></RD5WEB>",
             << Item("INTEGER_R", "I10211", "65526") >>, "none") }

\* Documents that are not well-formed up to the end of their first element,
\* or hold no element, or another root.
RejectedDocuments ==
  { Document("", << >>, "no element"),
    Document("denied", << >>, "no element"),
    Document(XmlDeclUTF8, << >>, "no element"),
    Document("<RD5WEB><RD5>", << >>, "not closed"),
    Document("<RD5WEB><RD5><INTEGER_R><O I=\"I10215\" V=\"201\"/></INTEGER_R></RD5>",
             << >>, "not closed"),
    Document("<RD5WEB><RD5><INTEGER_R><O I=\"I10215\" V=\"201\"/></INTEGER_R></RD5WEB>",
             << >>, "wrong end tag"),
    Document("<RD5WEB><RD5><INTEGER_R><O I=\"I10215\" V=\"201\"/><O I=I10211 V=36/></INTEGER_R></RD5></RD5WEB>",
             << >>, "attribute without quotes"),
    Document("<RD5WEB><RD5><INTEGER_R><O I=\"I10215\" V=\"201\"/><O I=\"I10211\" V/></INTEGER_R></RD5></RD5WEB>",
             << >>, "attribute without value"),
    Document("<RD5WEB><RD5><STRING_R><O I=\"S1\" V=\"a<b\"/></STRING_R></RD5></RD5WEB>",
             << >>, "< in attribute"),
    Document("<RD5WEB><RD5>Fans & filters</RD5></RD5WEB>", << >>, "& in text"),
    Document("<RD5WEB><RD5><INTEGER_R><O I=\"I10215\" V=\"201\"/></INTEGER_R></RD5><",
             << >>, "not closed"),
    Document("</RD5WEB>", << >>, "wrong end tag"),
    Document("<?xml version=\"1.0\" encoding=\"utf-8\"?>\n<root>\n  <RD5>\n    <Item id=\"H10715\" val=\"1\"/>\n  </RD5>\n</root>",
             << >>, "other root"),
    Document("<?xml version=\"1.0\"?><root lng=\"0\">15736</root>", << >>, "other root"),
    Document("<rd5web><RD5><INTEGER_R><O I=\"I10215\" V=\"201\"/></INTEGER_R></RD5></rd5web>",
             << >>, "other root"),
    Document("<RD5><INTEGER_R><O I=\"I10215\" V=\"201\"/></INTEGER_R></RD5>", << >>, "other root") }

\* Documents that are not well-formed before or behind their first element.
LooseDocuments ==
  { Document("<RD5WEB><RD5><INTEGER_R><O I=\"I10215\" V=\"201\"/></INTEGER_R></RD5></RD5WEB></RD5>",
             << Item("INTEGER_R", "I10215", "201") >>, "end tag behind the root"),
    Document("<RD5WEB><RD5><INTEGER_R><O I=\"I10215\" V=\"201\"/></INTEGER_R></RD5></RD5WEB><RD5WEB><RD5>",
             << Item("INTEGER_R", "I10215", "201") >>, "second root, not closed"),
    Document("<RD5WEB></RD5WEB>denied <", << >>, "text behind the root"),
    Document("HTTP/1.0 200 OK <RD5WEB><RD5><ENUM_R><O I=\"H10715\" V=\"1\"/></ENUM_R></RD5></RD5WEB>",
             << Item("ENUM_R", "H10715", "1") >>, "text before the root") }

Documents ==
  SubsetDocuments \cup PairDocuments \cup TestDocuments \cup RejectedDocuments
    \cup LooseDocuments

InitParse ==
  /\ NoClient
  /\ NoServer
  /\ input \in Documents
  /\ output = << >>

DoParseXMLData ==
  /\ input.op = "ParseXMLData"
  /\ output = << >>
  /\ output' = ParseXMLData(input.xmlStr)
  /\ UNCHANGED << client, server, input >>

NextParse == DoParseXMLData

SpecParse == InitParse /\ [][NextParse]_vars

(***************************************************************************)
(* utils.go: ParameterNames, GetParameterName and the accessors of         *)
(* DeviceData.  A DeviceData is an index into heap, the Items maps         *)
(* allocated so far; 0 is the nil pointer.  An accessor returns, besides   *)
(* its results, the heap as it leaves it.                                  *)
(***************************************************************************)
ParameterNames ==
  [ id \in { "I00000", "I00001", "I00002", "I00004", "I10211", "I10212", "I10213",
             "I10214", "I10215", "I10222", "I10224", "I10225", "I10249", "I10275",
             "I10281", "I10282", "I10230", "I10244", "I10251", "I10262", "I10265",
             "I12015", "I12020", "H10715", "H11010", "H11017", "H11021", "H11400",
             "H11406", "H10905", "H10906", "H10907", "H12200", "H12201", "H12202",
             "H12203", "H12204", "C10005", "C10007" } |->
      CASE id = "I00000" -> "System Status"
        [] id = "I00001" -> "Mode"
        [] id = "I00002" -> "Temperature"
        [] id = "I00004" -> "Year"
        [] id = "I10211" -> "Outdoor Air Temperature (T-ODA)"
        [] id = "I10212" -> "Supply Air Temperature (T-SUP)"
        [] id = "I10213" -> "Extract Air Temperature (T-ETA)"
        [] id = "I10214" -> "Exhaust Air Temperature (T-EHA)"
        [] id = "I10215" -> "Indoor Air Temperature (T-IDA)"
        [] id = "I10222" -> "Indoor Air Temperature (alt)"
        [] id = "I10224" -> "Extract Air Temperature (alt)"
        [] id = "I10225" -> "Extract Air Temperature (alt)"
        [] id = "I10249" -> "Supply Air Temperature (alt)"
        [] id = "I10275" -> "Outdoor Air Temperature (alt)"
        [] id = "I10281" -> "Outdoor Air Temperature (alt)"
        [] id = "I10282" -> "Outdoor Air Temperature (alt)"
        [] id = "I10230" -> "Supply Fan Speed"
        [] id = "I10244" -> "Extract Fan Speed"
        [] id = "I10251" -> "Supply Air Pressure"
        [] id = "I10262" -> "Extract Air Pressure"
        [] id = "I10265" -> "Fan Status"
        [] id = "I12015" -> "Filter Status"
        [] id = "I12020" -> "Filter Hours"
        [] id = "H10715" -> "Operating Mode"
        [] id = "H11010" -> "Temperature Setpoint Mode 1"
        [] id = "H11017" -> "Temperature Control Mode"
        [] id = "H11021" -> "Desired Temperature"
        [] id = "H11400" -> "Timezone Offset"
        [] id = "H11406" -> "System Uptime"
        [] id = "H10905" -> "Year"
        [] id = "H10906" -> "Month"
        [] id = "H10907" -> "Day"
        [] id = "H12200" -> "Network DHCP"
        [] id = "H12201" -> "IP Address"
        [] id = "H12202" -> "Subnet Mask"
        [] id = "H12203" -> "Gateway"
        [] id = "H12204" -> "DNS Server"
        [] id = "C10005" -> "System Reset"
        [] id = "C10007" -> "Clear Mode" ]

\* GetParameterName answering an identifier it does not know with "".
GetParameterNameOrEmpty(id) == IF id \in DOMAIN ParameterNames THEN ParameterNames[id] ELSE ""

GetParameterName(id) == IF id \in DOMAIN ParameterNames THEN ParameterNames[id] ELSE id

RECURSIVE Pow10(_)
Pow10(n) == IF n = 0 THEN 1 ELSE 10 * Pow10(n - 1)

\* The number digits "." fraction, negated when sign is -1.
Decimal(sign, digits, fraction) ==
  IF ~(AllDigits(digits) /\ AllDigits(fraction) /\ Len(digits) + Len(fraction) > 0)
  THEN [ ok |-> FALSE, value |-> Float(0, 1) ]
  ELSE [ ok |-> TRUE,
         value |-> Float(sign * (DigitsValue(digits) * Pow10(Len(fraction))
                                   + DigitsValue(fraction)),
                         Pow10(Len(fraction))) ]

\* body: the text behind the sign; dot: the index of its "." or -1.
DecimalAt(sign, body, dot) ==
  IF dot = -1 THEN Decimal(sign, body, "")
  ELSE Decimal(sign, Slice(body, 0, dot), SliceFrom(body, dot + 1))

\* strconv.ParseFloat(val, 64) for the texts of the model: a decimal number
\* with or without sign and fraction, or a text that is no number (on which
\* it returns 0 and an error).
ParseFloat(val) ==
  IF val # "" /\ Head(val) = "-" THEN DecimalAt(-1, Tail(val), Index(Tail(val), "."))
  ELSE IF val # "" /\ Head(val) = "+" THEN DecimalAt(1, Tail(val), Index(Tail(val), "."))
  ELSE DecimalAt(1, val, Index(val, "."))

ErrSyntax == "invalid syntax"

GetValue(h, d, key) ==
  [ val |-> IF key \in DOMAIN h[d] THEN h[d][key] ELSE "",
    ok |-> key \in DOMAIN h[d],
    heap |-> h ]

GetIntValue(h, d, key) ==
  IF key \notin DOMAIN h[d] THEN [ val |-> 0, err |-> "nil", heap |-> h ]
  ELSE IF ~AtoiOk(h[d][key]) THEN [ val |-> 0, err |-> ErrSyntax, heap |-> h ]
  ELSE [ val |-> Atoi(h[d][key]), err |-> "nil", heap |-> h ]

GetFloatValue(h, d, key) ==
  IF key \notin DOMAIN h[d] THEN [ val |-> Float(0, 1), err |-> "nil", heap |-> h ]
  ELSE IF ~ParseFloat(h[d][key]).ok THEN [ val |-> Float(0, 1), err |-> ErrSyntax, heap |-> h ]
  ELSE [ val |-> ParseFloat(h[d][key]).value, err |-> "nil", heap |-> h ]

IndoorIDs == << "I10215", "I10222", "I10224", "I10225", "I10249" >>

OutdoorIDs == << "I10211", "I10275", "I10282", "I10281" >>

\* The loop over tempIDs: the first identifier that the snapshot holds with
\* a number as its value decides; 0 when there is none.
RECURSIVE FirstReading(_, _)
FirstReading(items, tempIDs) ==
  IF Len(tempIDs) = 0 THEN Float(0, 1)
  ELSE IF Head(tempIDs) \in DOMAIN items /\ ParseFloat(items[Head(tempIDs)]).ok
  THEN decodeTemperature(ParseFloat(items[Head(tempIDs)]).value)
  ELSE FirstReading(items, Tail(tempIDs))

\* The loop returning at the first identifier the snapshot holds, 0 when its
\* value is no number.
RECURSIVE FirstPresent(_, _)
FirstPresent(items, tempIDs) ==
  IF Len(tempIDs) = 0 THEN Float(0, 1)
  ELSE IF Head(tempIDs) \in DOMAIN items
  THEN IF ParseFloat(items[Head(tempIDs)]).ok
       THEN decodeTemperature(ParseFloat(items[Head(tempIDs)]).value)
       ELSE Float(0, 1)
  ELSE FirstPresent(items, Tail(tempIDs))

\* GetCurrentTemperature giving up at the first candidate present.
GetCurrentTemperatureFirstPresent(h, d) ==
  [ val |-> FirstPresent(h[d], IndoorIDs), err |-> "nil", heap |-> h ]

GetCurrentTemperature(h, d) ==
  [ val |-> FirstReading(h[d], IndoorIDs), err |-> "nil", heap |-> h ]

GetOutdoorTemperature(h, d) ==
  [ val |-> FirstReading(h[d], OutdoorIDs), err |-> "nil", heap |-> h ]

\* temp / 100
Div100(x) == Float(x.num, x.den * 100)

FloatLess(x, y) == x.num * y.den < y.num * x.den

\* The identifiers GetAllTemperatures takes for temperatures: "I1" and four
\* more bytes, the value a number that is, divided by 100, above -50 and
\* below 100.
TemperatureLike(items) ==
  { id \in DOMAIN items :
      /\ Len(id) = 6
      /\ Slice(id, 0, 2) = "I1"
      /\ ParseFloat(items[id]).ok
      /\ FloatLess(Float(-50, 1), Div100(ParseFloat(items[id]).value))
      /\ FloatLess(Div100(ParseFloat(items[id]).value), Float(100, 1)) }

\* GetAllTemperatures: temps, the maps it can return, one reading under
\* each name (of several identifiers with one name the one the range over
\* the map visits last stays).
GetAllTemperatures(h, d) ==
  [ temps |->
      { t \in [ { GetParameterName(id) : id \in TemperatureLike(h[d]) } ->
                { Div100(ParseFloat(h[d][id]).value) : id \in TemperatureLike(h[d]) } ] :
          \A name \in DOMAIN t :
            \E id \in TemperatureLike(h[d]) :
              GetParameterName(id) = name /\ t[name] = Div100(ParseFloat(h[d][id]).value) },
    heap |-> h ]

\* if val, err := d.Get...; err == nil { params.Field = val }
IfNil(r, zero) == IF r.err = "nil" THEN r.val ELSE zero

ExtractCommonParameters(h, d) ==
  [ params |->
      [ OperatingMode      |-> GetValue(h, d, "H10715").val,
        DesiredTemperature |-> IfNil(GetFloatValue(h, d, "H11021"), Float(0, 1)),
        TemperatureMode    |-> IfNil(GetIntValue(h, d, "H11017"), 0),
        Year               |-> IfNil(GetIntValue(h, d, "H10905"), 0),
        Month              |-> IfNil(GetIntValue(h, d, "H10906"), 0),
        Day                |-> IfNil(GetIntValue(h, d, "H10907"), 0) ],
    heap |-> h ]

(***************************************************************************)
(* server.go, the caching revision: the Server and refreshData.            *)
(*   srv   the fields of the Server: deviceData (an index into heap, 0 for *)
(*         nil), lastUpdate (0 for the zero time), mutex; and now, the     *)
(*         clock time.Now() reads, and phase, how far StartServer is       *)
(*   heap  the Items maps of the DeviceData values allocated so far        *)
(***************************************************************************)
Unlocked == [ writer |-> "", readers |-> {} ]

\* &Server{deviceIP: ip, devicePassword: password, client: NewWebClient(ip)}
NewServer(ip, password) ==
  [ deviceIP |-> ip, devicePassword |-> password, deviceData |-> 0, lastUpdate |-> 0,
    mutex |-> Unlocked, now |-> 0, phase |-> "new" ]

\* What the device answers the GetData of the server.
RefreshReplies ==
  { TransportFailure, Response(200, SampleData), Response(200, "denied"),
    Response(200, "<RD5WEB><RD5><INTEGER_R><O I=\"I10215\" V=\"215\"/></INTEGER_R></RD5></RD5WEB>") }

\* ParseXMLData of each of these documents, computed once.
ParseXMLDataOf == [ xmlStr \in { reply.body : reply \in RefreshReplies } |-> ParseXMLData(xmlStr) ]

\* s.deviceData = deviceData; s.lastUpdate = time.Now(), the DeviceData
\* that ParseXMLData returned being a new one.
Stored(s, h, data) ==
  [ srv |-> [ s EXCEPT !.deviceData = Len(h) + 1, !.lastUpdate = s.now ],
    heap |-> Append(h, data.Items), err |-> "nil" ]

\* The new items written into the DeviceData the server holds already.
StoredInPlace(s, h, data) ==
  IF s.deviceData = 0 THEN Stored(s, h, data)
  ELSE [ srv |-> [ s EXCEPT !.lastUpdate = s.now ],
         heap |-> [ h EXCEPT ![s.deviceData] = data.Items ], err |-> "nil" ]

\* refreshData after ParseXMLData returned parsed.
Refreshed(s, h, parsed) ==
  IF parsed.err # "nil" THEN [ srv |-> s, heap |-> h, err |-> parsed.err ]
  ELSE Stored(s, h, parsed.data)

RefreshedInPlace(s, h, parsed) ==
  IF parsed.err # "nil" THEN [ srv |-> s, heap |-> h, err |-> parsed.err ]
  ELSE StoredInPlace(s, h, parsed.data)

\* refreshData after GetData returned r.
Fetched(s, h, r) ==
  IF r.err # "nil" THEN [ srv |-> s, heap |-> h, err |-> r.err ]
  ELSE Refreshed(s, h, ParseXMLDataOf[r.ret])

FetchedInPlace(s, h, r) ==
  IF r.err # "nil" THEN [ srv |-> s, heap |-> h, err |-> r.err ]
  ELSE RefreshedInPlace(s, h, ParseXMLDataOf[r.ret])

\* refreshData filling the DeviceData it holds instead of replacing it.
refreshDataInPlace(s, h, c, nonce, reply) == FetchedInPlace(s, h, GetData(c, nonce, reply))

\* refreshData, from Lock to Unlock.
refreshData(s, h, c, nonce, reply) == Fetched(s, h, GetData(c, nonce, reply))

(***************************************************************************)
(* One caller holding a server and reading its snapshot.                   *)
(***************************************************************************)
ReadingValues == { "201", "65526", "0", "1301", "20.1", "", "n/a", "-5" }

PairValues == { "215", "", "n/a" }

CandidateIDs ==
  { IndoorIDs[i] : i \in DOMAIN IndoorIDs } \cup { OutdoorIDs[i] : i \in DOMAIN OutdoorIDs }

\* Two candidates of one reading, the earlier in the list first.
PairsOf(ids) ==
  { << ids[q[1]], ids[q[2]] >> : q \in { r \in (DOMAIN ids) \X (DOMAIN ids) : r[1] < r[2] } }

CandidatePairs == PairsOf(IndoorIDs) \cup PairsOf(OutdoorIDs)

\* The snapshot of TestParseXMLDataBasic.
BasicItems ==
  [ id \in { "I10215", "I10211", "I10230" } |->
      CASE id = "I10215" -> "201" [] id = "I10211" -> "36" [] id = "I10230" -> "50.5" ]

\* A snapshot with settings, and with two identifiers of one name.
SettingsItems ==
  [ id \in { "H10715", "H11021", "H11017", "H10905", "H10906", "H10907", "I10224",
             "I10225", "I1", "UNKNOWN" } |->
      CASE id = "H10715" -> "1"
        [] id = "H11021" -> "21.5"
        [] id = "H11017" -> "2"
        [] id = "H10905" -> "2026"
        [] id = "H10906" -> "11"
        [] id = "H10907" -> "2nd"
        [] id = "I10224" -> "2150"
        [] id = "I10225" -> "2250"
        [] id = "I1" -> "2000"
        [] id = "UNKNOWN" -> "?" ]

Snapshots ==
  { << >>, BasicItems, SettingsItems }
    \cup { [ id \in { c } |-> v ] : c \in CandidateIDs, v \in ReadingValues }
    \cup { [ id \in { p[1], p[2] } |-> IF id = p[1] THEN v ELSE w ] :
             p \in CandidatePairs, v \in PairValues, w \in PairValues }

Keys == { "I10215", "H11021", "H11017", "H10907", "UNKNOWN" }

Identifiers == DOMAIN ParameterNames \cup { "UNKNOWN", "", "i10215", "I1021" }

MaxRefreshes == 1

InitSnapshot ==
  /\ NoClient
  /\ NoFunction
  /\ \E items \in Snapshots :
       /\ srv = [ NewServer(DeviceIP, "6378") EXCEPT !.deviceData = 1, !.phase = "test" ]
       /\ heap = << items >>
  /\ procs = << >>
  /\ sm = << >>

Applied(op, key) == [ op |-> op, d |-> srv.deviceData, key |-> key, before |-> heap ]

DoGetValue ==
  /\ srv.deviceData # 0
  /\ \E key \in Keys :
       /\ input' = Applied("GetValue", key)
       /\ output' = [ val |-> GetValue(heap, srv.deviceData, key).val,
                      ok |-> GetValue(heap, srv.deviceData, key).ok ]
       /\ heap' = GetValue(heap, srv.deviceData, key).heap
  /\ UNCHANGED << client, srv, procs, sm >>

DoGetIntValue ==
  /\ srv.deviceData # 0
  /\ \E key \in Keys :
       /\ input' = Applied("GetIntValue", key)
       /\ output' = [ val |-> GetIntValue(heap, srv.deviceData, key).val,
                      err |-> GetIntValue(heap, srv.deviceData, key).err ]
       /\ heap' = GetIntValue(heap, srv.deviceData, key).heap
  /\ UNCHANGED << client, srv, procs, sm >>

DoGetFloatValue ==
  /\ srv.deviceData # 0
  /\ \E key \in Keys :
       /\ input' = Applied("GetFloatValue", key)
       /\ output' = [ val |-> GetFloatValue(heap, srv.deviceData, key).val,
                      err |-> GetFloatValue(heap, srv.deviceData, key).err ]
       /\ heap' = GetFloatValue(heap, srv.deviceData, key).heap
  /\ UNCHANGED << client, srv, procs, sm >>

DoGetCurrentTemperature ==
  /\ srv.deviceData # 0
  /\ input' = Applied("GetCurrentTemperature", "")
  /\ output' = [ val |-> GetCurrentTemperature(heap, srv.deviceData).val,
                 err |-> GetCurrentTemperature(heap, srv.deviceData).err ]
  /\ heap' = GetCurrentTemperature(heap, srv.deviceData).heap
  /\ UNCHANGED << client, srv, procs, sm >>

DoGetOutdoorTemperature ==
  /\ srv.deviceData # 0
  /\ input' = Applied("GetOutdoorTemperature", "")
  /\ output' = [ val |-> GetOutdoorTemperature(heap, srv.deviceData).val,
                 err |-> GetOutdoorTemperature(heap, srv.deviceData).err ]
  /\ heap' = GetOutdoorTemperature(heap, srv.deviceData).heap
  /\ UNCHANGED << client, srv, procs, sm >>

DoGetAllTemperatures ==
  /\ srv.deviceData # 0
  /\ input' = Applied("GetAllTemperatures", "")
  /\ \E temps \in GetAllTemperatures(heap, srv.deviceData).temps :
       output' = [ temps |-> temps ]
  /\ heap' = GetAllTemperatures(heap, srv.deviceData).heap
  /\ UNCHANGED << client, srv, procs, sm >>

DoExtractCommonParameters ==
  /\ srv.deviceData # 0
  /\ input' = Applied("ExtractCommonParameters", "")
  /\ output' = [ params |-> ExtractCommonParameters(heap, srv.deviceData).params ]
  /\ heap' = ExtractCommonParameters(heap, srv.deviceData).heap
  /\ UNCHANGED << client, srv, procs, sm >>

DoGetParameterName ==
  /\ \E id \in Identifiers :
       /\ input' = Applied("GetParameterName", id)
       /\ output' = [ name |-> GetParameterName(id) ]
  /\ UNCHANGED << client, srv, heap, procs, sm >>

\* refreshData, called at a later time than the last one.
DoRefreshData ==
  /\ srv.now < MaxRefreshes
  /\ \E reply \in RefreshReplies, nonce \in generateRandomString(2) :
       /\ input' = [ Applied("refreshData", "") EXCEPT !.d = 0 ]
       /\ output' = [ err |-> refreshData([ srv EXCEPT !.now = @ + 1 ], heap, wc, nonce, reply).err ]
       /\ srv' = refreshData([ srv EXCEPT !.now = @ + 1 ], heap, wc, nonce, reply).srv
       /\ heap' = refreshData([ srv EXCEPT !.now = @ + 1 ], heap, wc, nonce, reply).heap
  /\ UNCHANGED << client, procs, sm >>

NextSnapshot ==
  \/ DoGetValue
  \/ DoGetIntValue
  \/ DoGetFloatValue
  \/ DoGetCurrentTemperature
  \/ DoGetOutdoorTemperature
  \/ DoGetAllTemperatures
  \/ DoExtractCommonParameters
  \/ DoGetParameterName
  \/ DoRefreshData

SpecSnapshot == InitSnapshot /\ [][NextSnapshot]_vars

(***************************************************************************)
(* server.go, the caching revision: the handlers.  A handler is given the  *)
(* request r and what its goroutine read from the server under the lock:   *)
(* d, the DeviceData, and t, lastUpdate.  A response is the status         *)
(* written, the kind of its body and, of an APIResponse, the fields.       *)
(***************************************************************************)
Request(method, path, limit) == [ method |-> method, path |-> path, limit |-> limit ]

\* json.NewEncoder(w).Encode(APIResponse{...}) after w.WriteHeader(status)
Json(status, success, error, message, data) ==
  [ status |-> status, kind |-> "json", success |-> success, error |-> error,
    message |-> message, data |-> data ]

\* http.Error(w, "Method not allowed", http.StatusMethodNotAllowed)
MethodNotAllowed ==
  [ status |-> 405, kind |-> "text", success |-> FALSE, error |-> "Method not allowed",
    message |-> "", data |-> << >> ]

NotInitialized == Json(503, FALSE, "Device not initialized", "", << >>)

\* corsMiddleware on OPTIONS: w.WriteHeader(http.StatusOK) and no body.
Preflight ==
  [ status |-> 200, kind |-> "empty", success |-> FALSE, error |-> "", message |-> "",
    data |-> << >> ]

handleHealth(r) ==
  IF r.method # "GET" THEN MethodNotAllowed
  ELSE Json(200, TRUE, "", "Server is running", [ status |-> "ok" ])

\* handleStatus answering without a snapshot with a status of zeros.
handleStatusUnchecked(s, c, h, r, d, t) ==
  IF r.method # "GET" THEN MethodNotAllowed
  ELSE Json(200, TRUE, "", "",
            [ Device |-> "Atrea RD5", IP |-> s.deviceIP,
              IsAuthenticated |-> IsAuthenticated(c), SessionID |-> GetSessionID(c),
              ParameterCount |-> IF d = 0 THEN 0 ELSE Cardinality(DOMAIN h[d]),
              LastUpdate |-> t,
              IndoorTemp |-> IF d = 0 THEN Float(0, 1) ELSE GetCurrentTemperature(h, d).val,
              OutdoorTemp |-> IF d = 0 THEN Float(0, 1) ELSE GetOutdoorTemperature(h, d).val ])

handleStatus(s, c, h, r, d, t) ==
  IF r.method # "GET" THEN MethodNotAllowed
  ELSE IF d = 0 THEN NotInitialized
  ELSE Json(200, TRUE, "", "",
            [ Device |-> "Atrea RD5", IP |-> s.deviceIP,
              IsAuthenticated |-> IsAuthenticated(c), SessionID |-> GetSessionID(c),
              ParameterCount |-> Cardinality(DOMAIN h[d]), LastUpdate |-> t,
              IndoorTemp |-> GetCurrentTemperature(h, d).val,
              OutdoorTemp |-> GetOutdoorTemperature(h, d).val ])

handleTemperature(h, r, d, t) ==
  IF r.method # "GET" THEN MethodNotAllowed
  ELSE IF d = 0 THEN NotInitialized
  ELSE IF GetCurrentTemperature(h, d).err # "nil" \/ GetOutdoorTemperature(h, d).err # "nil"
  THEN Json(500, FALSE, "Failed to read temperatures", "", << >>)
  ELSE Json(200, TRUE, "", "",
            [ Indoor |-> GetCurrentTemperature(h, d).val,
              Outdoor |-> GetOutdoorTemperature(h, d).val, Timestamp |-> t ])

\* limitInt of handleParameters: 0 without the query parameter limit.
LimitInt(r) == IF r.limit # "" THEN Atoi(r.limit) ELSE 0

\* The sets of identifiers the range over Items can have visited when
\* handleParameters leaves its loop: all of them, or the first limitInt in
\* the order of the range, which is any order.
Visited(items, limitInt) ==
  { ids \in SUBSET (DOMAIN items) :
      \/ ids = DOMAIN items
      \/ limitInt > 0 /\ Cardinality(ids) = limitInt }

ParameterResponse(items, id) ==
  [ ID |-> id, Name |-> GetParameterName(id), Value |-> items[id] ]

\* ids: the identifiers the range visited.
handleParameters(h, r, d, ids) ==
  IF r.method # "GET" THEN MethodNotAllowed
  ELSE IF d = 0 THEN NotInitialized
  ELSE Json(200, TRUE, "", "",
            [ Count |-> Cardinality(ids),
              Parameters |-> { ParameterResponse(h[d], id) : id \in ids } ])

\* strings.TrimPrefix
TrimPrefix(str, prefix) ==
  IF Len(str) >= Len(prefix) /\ Slice(str, 0, Len(prefix)) = prefix
  THEN SliceFrom(str, Len(prefix)) ELSE str

\* parts[0] of the path behind "/parameter/", split at "/".
ParamID(path) == Split(TrimPrefix(path, "/parameter/"), "/")[1]

\* handleParameter looking for the snapshot before it looks at the id.
handleParameterSnapshotFirst(h, r, d) ==
  IF r.method # "GET" THEN MethodNotAllowed
  ELSE IF d = 0 THEN NotInitialized
  ELSE IF ParamID(r.path) = "" THEN Json(400, FALSE, "Missing parameter ID", "", << >>)
  ELSE IF ParamID(r.path) \notin DOMAIN h[d]
  THEN Json(404, FALSE, "Parameter " \o ParamID(r.path) \o " not found", "", << >>)
  ELSE Json(200, TRUE, "", "", ParameterResponse(h[d], ParamID(r.path)))

handleParameter(h, r, d) ==
  IF r.method # "GET" THEN MethodNotAllowed
  ELSE IF ParamID(r.path) = "" THEN Json(400, FALSE, "Missing parameter ID", "", << >>)
  ELSE IF d = 0 THEN NotInitialized
  ELSE IF ParamID(r.path) \notin DOMAIN h[d]
  THEN Json(404, FALSE, "Parameter " \o ParamID(r.path) \o " not found", "", << >>)
  ELSE Json(200, TRUE, "", "", ParameterResponse(h[d], ParamID(r.path)))

\* err: what refreshData returned.
handleRefresh(r, err) ==
  IF r.method # "POST" THEN MethodNotAllowed
  ELSE IF err # "nil" THEN Json(500, FALSE, "Failed to refresh data: " \o err, "", << >>)
  ELSE Json(200, TRUE, "", "Device data refreshed", << >>)

\* The handler http.HandleFunc registered for the path.
Route(path) ==
  IF Len(path) >= 11 /\ Slice(path, 0, 11) = "/parameter/" THEN "handleParameter"
  ELSE CASE path = "/health" -> "handleHealth"
         [] path = "/status" -> "handleStatus"
         [] path = "/temperature" -> "handleTemperature"
         [] path = "/parameters" -> "handleParameters"
         [] path = "/refresh" -> "handleRefresh"

\* The handlers that read the snapshot.
DataHandlers == { "handleStatus", "handleTemperature", "handleParameters", "handleParameter" }

\* The response of the handler of r to what its goroutine read.
Handle(s, c, h, r, d, t, ids, err) ==
  CASE Route(r.path) = "handleHealth" -> handleHealth(r)
    [] Route(r.path) = "handleStatus" -> handleStatus(s, c, h, r, d, t)
    [] Route(r.path) = "handleTemperature" -> handleTemperature(h, r, d, t)
    [] Route(r.path) = "handleParameters" -> handleParameters(h, r, d, ids)
    [] Route(r.path) = "handleParameter" -> handleParameter(h, r, d)
    [] Route(r.path) = "handleRefresh" -> handleRefresh(r, err)

\* corsMiddleware answers OPTIONS itself when the handler was registered by
\* StartServer; the tests call the handler as it is.
AnsweredByMiddleware(s, r) == s.phase = "listening" /\ r.method = "OPTIONS"

\* The handler takes s.mutex.RLock(): it got past its checks of the
\* request.
TakesRLock(r) ==
  /\ Route(r.path) \in DataHandlers
  /\ r.method = "GET"
  /\ Route(r.path) = "handleParameter" => ParamID(r.path) # ""

\* The handler calls refreshData.
TakesLock(r) == Route(r.path) = "handleRefresh" /\ r.method = "POST"

\* s.mutex.RLock() returns: no writer holds the mutex.
CanRLockAnyway(m) == TRUE

CanRLock(m) == m.writer = ""

\* s.mutex.Lock() returns: nobody holds the mutex.
CanLock(m) == m.writer = "" /\ m.readers = {}

\* StartServer after authenticate returned err: it returns err, or goes on
\* to register the routes and listen.
StartServerListensAnyway(err) == "authenticated"

StartServerAfter(err) == IF err # "nil" THEN "failed" ELSE "authenticated"

(***************************************************************************)
(* SpecServer: the caching server with its goroutines.  "main" runs        *)
(* StartServer; h1 and h2 each serve one request at a time.  Every access  *)
(* to the mutex, to s.deviceData and to s.lastUpdate is a step of its own. *)
(* The server starts from NewServer and StartServer, or, as in             *)
(* server_test.go, from a Server literal whose handlers are called with no *)
(* middleware around them.                                                  *)
(***************************************************************************)
MaxRequests == 2

Handlers == { "h1", "h2" }

ServerGoroutines == { "main" } \cup Handlers

Requests ==
  { Request("GET", path, "") :
      path \in { "/health", "/status", "/temperature", "/parameters", "/refresh",
                 "/parameter/I10215", "/parameter/UNKNOWN", "/parameter/",
                 "/parameter/I10215/extra" } }
    \cup { Request("GET", "/parameters", "1") }
    \cup { Request("POST", path, "") : path \in { "/refresh", "/status", "/parameter/I10215" } }
    \cup { Request("OPTIONS", path, "") : path \in { "/health", "/parameter/I10215" } }
    \cup { Request("DELETE", "/parameter/I10215", "") }

NoHTTPRequest == Request("", "", "")

NoResponse ==
  [ status |-> 0, kind |-> "none", success |-> FALSE, error |-> "", message |-> "",
    data |-> << >> ]

\* A goroutine: where it is, the request it serves, what it read of the
\* server (d, t), what it fetched (data, err), the pair the server held
\* when it took the lock (was), and the response it wrote last.
Goroutine(pc) ==
  [ pc |-> pc, req |-> NoHTTPRequest, d |-> 0, t |-> 0, data |-> << >>, err |-> "nil",
    was |-> << 0, 0 >>, resp |-> NoResponse ]

\* The pair of s.deviceData and s.lastUpdate.
Pair(s) == << s.deviceData, s.lastUpdate >>

InitServer ==
  /\ NoClient
  /\ NoFunction
  /\ sm = << >>
  /\ \/ /\ srv = NewServer(DeviceIP, "6378") @@ [ accepted |-> 0, commits |-> { << 0, 0 >> } ]
        /\ heap = << >>
        /\ procs = [ p \in ServerGoroutines |-> Goroutine(IF p = "main" THEN "lock" ELSE "idle") ]
     \/ \E d \in { 0, 1 } :
          /\ srv = [ NewServer(DeviceIP, "6378") EXCEPT !.deviceData = d, !.phase = "test" ]
                     @@ [ accepted |-> 0, commits |-> { << d, 0 >> } ]
          /\ heap = IF d = 0 THEN << >> ELSE << BasicItems >>
          /\ procs = [ p \in ServerGoroutines |-> Goroutine(IF p = "main" THEN "off" ELSE "idle") ]

Serving == srv.phase \in { "listening", "test" }

\* A request arrives at handler goroutine p.  What the middleware and the
\* handler decide from the request alone is answered at once.
DoAccept(p) ==
  /\ Serving
  /\ procs[p].pc = "idle"
  /\ srv.accepted < MaxRequests
  /\ \E r \in Requests :
       /\ srv' = [ srv EXCEPT !.accepted = @ + 1 ]
       /\ procs' = [ procs EXCEPT ![p] =
            IF AnsweredByMiddleware(srv, r)
            THEN [ Goroutine("idle") EXCEPT !.req = r, !.resp = Preflight ]
            ELSE IF TakesRLock(r) THEN [ Goroutine("rlock") EXCEPT !.req = r ]
            ELSE IF TakesLock(r) THEN [ Goroutine("lock") EXCEPT !.req = r ]
            ELSE [ Goroutine("idle") EXCEPT !.req = r,
                     !.resp = Handle(srv, wc, heap, r, 0, 0, {}, "nil") ] ]
  /\ UNCHANGED << client, heap, sm, input, output >>

\* s.mutex.RLock()
DoRLock(p) ==
  /\ procs[p].pc = "rlock"
  /\ CanRLock(srv.mutex)
  /\ srv' = [ srv EXCEPT !.mutex.readers = @ \cup { p } ]
  /\ procs' = [ procs EXCEPT ![p].pc = "read" ]
  /\ UNCHANGED << client, heap, sm, input, output >>

\* The handler reads s.deviceData.
DoReadData(p) ==
  /\ procs[p].pc = "read"
  /\ procs' = [ procs EXCEPT ![p].d = srv.deviceData,
                             ![p].pc = IF Route(procs[p].req.path) \in { "handleStatus", "handleTemperature" }
                                       /\ srv.deviceData # 0
                                       THEN "readtime" ELSE "respond" ]
  /\ UNCHANGED << client, srv, heap, sm, input, output >>

\* The handler reads s.lastUpdate.
DoReadTime(p) ==
  /\ procs[p].pc = "readtime"
  /\ procs' = [ procs EXCEPT ![p].t = srv.lastUpdate, ![p].pc = "respond" ]
  /\ UNCHANGED << client, srv, heap, sm, input, output >>

\* The handler writes its response; the deferred RUnlock runs.
DoRespond(p) ==
  /\ procs[p].pc = "respond"
  /\ \E ids \in IF procs[p].d = 0 THEN { {} }
                ELSE Visited(heap[procs[p].d], LimitInt(procs[p].req)) :
       procs' = [ procs EXCEPT ![p].pc = "idle",
                    ![p].resp = Handle(srv, wc, heap, procs[p].req, procs[p].d, procs[p].t,
                                       ids, "nil") ]
  /\ srv' = [ srv EXCEPT !.mutex.readers = @ \ { p } ]
  /\ UNCHANGED << client, heap, sm, input, output >>

\* s.mutex.Lock() of authenticate and of refreshData
DoLock(p) ==
  /\ procs[p].pc = "lock"
  /\ CanLock(srv.mutex)
  /\ srv' = [ srv EXCEPT !.mutex.writer = p ]
  /\ procs' = [ procs EXCEPT ![p].pc = IF p = "main" THEN "login" ELSE "fetch",
                             ![p].was = Pair(srv) ]
  /\ UNCHANGED << client, heap, sm, input, output >>

\* authenticate: s.client.Login(s.devicePassword)
DoAuthLogin ==
  /\ procs["main"].pc = "login"
  /\ \E nonce \in generateRandomString(3), reply \in ConcurrentLoginReplies :
       LET r == Login(wc, srv.devicePassword, nonce, reply)
       IN  /\ wc' = r.wc
           /\ procs' = [ procs EXCEPT !["main"].pc = IF r.err # "nil" THEN "unlock" ELSE "fetch",
                           !["main"].err = IF r.err # "nil"
                                           THEN "authentication failed: " \o r.err ELSE "nil" ]
  /\ UNCHANGED << last, calls, sent, threads, stores, wire, srv, heap, sm, input, output >>

\* What the goroutine keeps of GetData returning r and of ParseXMLData:
\* the error as its function returns it, or the new DeviceData.
FetchedBy(p, r) ==
  IF r.err # "nil"
  THEN [ err |-> IF p = "main" THEN "failed to get initial data: " \o r.err ELSE r.err,
         data |-> << >> ]
  ELSE IF ParseXMLDataOf[r.ret].err # "nil"
  THEN [ err |-> IF p = "main" THEN "failed to parse data: " \o ParseXMLDataOf[r.ret].err
                 ELSE ParseXMLDataOf[r.ret].err,
         data |-> << >> ]
  ELSE [ err |-> "nil", data |-> ParseXMLDataOf[r.ret].data.Items ]

\* s.client.GetData() and ParseXMLData(data)
DoFetch(p) ==
  /\ procs[p].pc = "fetch"
  /\ \E nonce \in generateRandomString(2), reply \in RefreshReplies :
       procs' = [ procs EXCEPT
         ![p].err = FetchedBy(p, GetData(wc, nonce, reply)).err,
         ![p].data = FetchedBy(p, GetData(wc, nonce, reply)).data,
         ![p].pc = IF FetchedBy(p, GetData(wc, nonce, reply)).err # "nil"
                   THEN "unlock" ELSE "storedata" ]
  /\ UNCHANGED << client, srv, heap, sm, input, output >>

\* s.deviceData = deviceData
DoStoreData(p) ==
  /\ procs[p].pc = "storedata"
  /\ heap' = Append(heap, procs[p].data)
  /\ srv' = [ srv EXCEPT !.deviceData = Len(heap) + 1 ]
  /\ procs' = [ procs EXCEPT ![p].pc = "storetime" ]
  /\ UNCHANGED << client, sm, input, output >>

\* s.lastUpdate = time.Now()
DoStoreTime(p) ==
  /\ procs[p].pc = "storetime"
  /\ srv' = [ srv EXCEPT !.now = @ + 1, !.lastUpdate = srv.now + 1,
                         !.commits = @ \cup { << srv.deviceData, srv.now + 1 >> } ]
  /\ procs' = [ procs EXCEPT ![p].pc = "unlock" ]
  /\ UNCHANGED << client, heap, sm, input, output >>

\* The deferred s.mutex.Unlock(); authenticate returns to StartServer,
\* refreshData to handleRefresh, which answers.
DoUnlock(p) ==
  /\ procs[p].pc = "unlock"
  /\ srv' = [ srv EXCEPT !.mutex.writer = "",
                         !.phase = IF p = "main" THEN StartServerAfter(procs[p].err) ELSE @ ]
  /\ procs' = [ procs EXCEPT
       ![p].pc = IF p = "main" THEN "returned" ELSE "idle",
       ![p].resp = IF p = "main" THEN NoResponse ELSE handleRefresh(procs[p].req, procs[p].err) ]
  /\ UNCHANGED << client, heap, sm, input, output >>

\* StartServer registers the routes and calls http.ListenAndServe, which
\* serves, or returns an error at once.
DoListen ==
  /\ srv.phase = "authenticated"
  /\ \E bound \in BOOLEAN :
       srv' = [ srv EXCEPT !.phase = IF bound THEN "listening" ELSE "stopped" ]
  /\ UNCHANGED << client, heap, procs, sm, input, output >>

NextServer ==
  \/ \E p \in Handlers : DoAccept(p)
  \/ \E p \in Handlers : DoRLock(p)
  \/ \E p \in Handlers : DoReadData(p)
  \/ \E p \in Handlers : DoReadTime(p)
  \/ \E p \in Handlers : DoRespond(p)
  \/ \E p \in ServerGoroutines : DoLock(p)
  \/ DoAuthLogin
  \/ \E p \in ServerGoroutines : DoFetch(p)
  \/ \E p \in ServerGoroutines : DoStoreData(p)
  \/ \E p \in ServerGoroutines : DoStoreTime(p)
  \/ \E p \in ServerGoroutines : DoUnlock(p)
  \/ DoListen

SpecServer == InitServer /\ [][NextServer]_vars

(***************************************************************************)
(* SpecSession: a SessionManager around the client.  sm holds the          *)
(* manager's password and lastLogin and the clock time.Now() reads; the    *)
(* zero time.Time is 0 and the clock starts after it.  The client can also *)
(* be given a token with SetSessionID, which restores a session.           *)
(***************************************************************************)
MaxSessionCalls == 4

\* &SessionManager{client: client, password: password}
NewSessionManager(password) == [ password |-> password, lastLogin |-> 0 ]

\* What EnsureAuthenticated makes of Login returning r at the time now.
LoggedIn(m, now, r) ==
  [ sm |-> IF r.err = "nil" THEN [ m EXCEPT !.lastLogin = now ] ELSE m,
    wc |-> r.wc, ret |-> "", err |-> r.err, reqs |-> r.reqs ]

\* EnsureAuthenticated logging in whether or not the client holds a token.
EnsureAuthenticatedAlways(m, c, now, nonce, reply) ==
  LoggedIn(m, now, Login(c, m.password, nonce, reply))

EnsureAuthenticated(m, c, now, nonce, reply) ==
  IF IsAuthenticated(c)
  THEN [ sm |-> m, wc |-> c, ret |-> "", err |-> "nil", reqs |-> << >> ]
  ELSE LoggedIn(m, now, Login(c, m.password, nonce, reply))

\* time.Since(sm.lastLogin) at the time now, 0 without a token.
GetSessionAge(m, c, now) == IF ~ IsAuthenticated(c) THEN 0 ELSE now - m.lastLogin

\* The manager of sm, without the clock.
Manager == [ password |-> sm.password, lastLogin |-> sm.lastLogin ]

InitSession ==
  /\ NoClient
  /\ NoFunction
  /\ srv = << >> /\ heap = << >> /\ procs = << >>
  /\ \E password \in Passwords : sm = NewSessionManager(password) @@ [ now |-> 1 ]

\* A call of the manager or the client: the clock moves on.
SessionCall(op, sessionID, reply, r, m) ==
  /\ calls < MaxSessionCalls
  /\ wc' = r.wc
  /\ sm' = m @@ [ now |-> sm.now + 1 ]
  /\ last' = Call(op, sm.password, << >>, sessionID, reply, wc.auth, r)
  /\ calls' = calls + 1
  /\ sent' = sent + Len(r.reqs)
  /\ UNCHANGED << threads, stores, wire, srv, heap, procs, input, output >>

DoEnsureAuthenticated ==
  \E nonce \in generateRandomString(3), reply \in LoginReplies :
    SessionCall("EnsureAuthenticated", "", reply,
                EnsureAuthenticated(Manager, wc, sm.now, nonce, reply),
                EnsureAuthenticated(Manager, wc, sm.now, nonce, reply).sm)

DoSessionLogout == SessionCall("Logout", "", NoReply, Local(Logout(wc)), Manager)

DoGetSessionAge ==
  SessionCall("GetSessionAge", "", NoReply,
              [ Local(wc) EXCEPT !.ret = GetSessionAge(Manager, wc, sm.now) ], Manager)

DoRestoreSession ==
  \E sessionID \in SessionIDs :
    SessionCall("SetSessionID", sessionID, NoReply, Local(SetSessionID(wc, sessionID)), Manager)

NextSession ==
  \/ DoEnsureAuthenticated
  \/ DoSessionLogout
  \/ DoGetSessionAge
  \/ DoRestoreSession

SpecSession == InitSession /\ [][NextSession]_vars

(***************************************************************************)
(* Properties of the session client.                                       *)
(***************************************************************************)
CoreOps == { "Login", "GetData", "GetAlarms", "SetValue", "SetMultipleValues" }

DataOps == CoreOps \ { "Login" }

LoginPath == "/config/login.cgi"

\* The device answered the last call and its body was read to the end.
Answered == last.reply.kind = "response" /\ ~last.reply.readErr

\* The token a login answer carries: a short string of decimal digits that
\* is not "0" (short: fewer digits than the largest int has).
IsToken(t) ==
  /\ t # ""
  /\ t # "0"
  /\ AllDigits(t)
  /\ Len(t) < Len("9223372036854775807")

\* C1: a Login that returns no error has stored the token it returns, so
\* GetSessionID() equals it and IsAuthenticated() is true; and Login does
\* succeed, with that token, on every answer whose root element holds a token.
C1_LoginStoresToken ==
  last.op = "Login" =>
    /\ (last.err = "nil" =>
          /\ last.ret # ""
          /\ wc.auth = last.ret
          /\ GetSessionID(wc) = last.ret
          /\ IsAuthenticated(wc))
    /\ \A d \in RootDocs :
         (Answered /\ last.reply.body = Render(d) /\ IsToken(TrimSpace(d.text))) =>
           /\ last.err = "nil"
           /\ last.ret = TrimSpace(d.text)
           /\ GetSessionID(wc) = TrimSpace(d.text)

C1_Witness ==
  /\ last.op = "Login"
  /\ last.err = "nil"
  /\ last.reply.body = Render(RootDoc(XmlDecl, " lng=\"0\"", "15736", ""))
  /\ wc.auth = "15736"

\* C2: a Login that fails returns the empty token and leaves the stored token
\* as it was before the call; and it does fail on a transport failure, on an
\* answer without root element and on the tokens "", "0" and "denied".
C2_FailedLoginKeepsSession ==
  last.op = "Login" =>
    /\ (last.err # "nil" => last.ret = "" /\ wc.auth = last.before)
    /\ (last.reply.kind = "error" \/ last.reply.readErr => last.err # "nil")
    /\ (Answered /\ last.reply.body \in NoRootBodies => last.err = ErrAuth)
    /\ \A d \in RootDocs :
         (Answered /\ last.reply.body = Render(d)
            /\ TrimSpace(d.text) \in { "", "0", "denied" }) => last.err = ErrAuth

C2_Witness ==
  /\ last.op = "Login"
  /\ last.err = ErrAuth
  /\ last.before = "12345"
  /\ wc.auth = "12345"

\* C3: Login rejects, with an authentication error and no token, every answer
\* whose extracted token is empty, "0", "denied" or not made of decimal
\* digits only.
C3_OnlyDigitTokensAccepted ==
  \A d \in RootDocs :
    LET t == TrimSpace(d.text)
    IN  (last.op = "Login" /\ Answered /\ last.reply.body = Render(d)
           /\ ~(t # "" /\ t # "0" /\ t # "denied" /\ AllDigits(t))) =>
          (last.err = ErrAuth /\ last.ret = "")

\* C4: the token Login works on is the trimmed text between the '>' of the
\* opening root tag and "</root>": Login returns that text when it succeeds,
\* and when it fails that text is one its validation refuses; the sample
\* answer yields "15736", and an answer of denied or without root element
\* yields an authentication error.
C4_TokenIsRootText ==
  last.op = "Login" /\ Answered =>
    /\ \A d \in RootDocs :
         last.reply.body = Render(d) =>
           IF last.err = "nil"
           THEN last.ret = TrimSpace(d.text)
           ELSE /\ last.err = ErrAuth
                /\ last.ret = ""
                /\ ~IsToken(TrimSpace(d.text))
    /\ (last.reply.body = "<?xml version=\"1.0\"?><root lng=\"0\">15736</root>" =>
          last.err = "nil" /\ last.ret = "15736")
    /\ (last.reply.body \in { "denied", XmlDeclUTF8 \o "<root lng=\"0\">denied</root>" } =>
          last.err = ErrAuth /\ last.ret = "")
    /\ (last.reply.body \in NoRootBodies => last.err = ErrAuth /\ last.ret = "")

C4_Witness ==
  /\ last.op = "Login"
  /\ last.reply.body = Render(RootDoc(XmlDeclUTF8 \o "\n", " lng=\"0\"", " 60588\n", "\n"))
  /\ last.ret = "60588"

\* The lowercase hexadecimal MD5 of 0x0D 0x0A followed by the password's bytes.
CRLFDigest == [ p \in Passwords |-> HexLower(MD5Sum(<< 13, 10 >> \o StringBytes(p))) ]

\* C5: Login sends one request, to /config/login.cgi, whose magic is the
\* lowercase hexadecimal MD5 of the bytes 0x0D 0x0A followed by the
\* password's bytes and whose rnd is not empty; the magic of "6378" is
\* 993278d1925c378ab94a6fe664ea6c60.
C5_LoginMagic ==
  last.op = "Login" =>
    /\ Len(last.reqs) = 1
    /\ last.reqs[1].path = LoginPath
    /\ DOMAIN last.reqs[1].query = { "magic", "rnd" }
    /\ last.reqs[1].query["magic"] = CRLFDigest[last.password]
    /\ last.reqs[1].query["rnd"] # ""
    /\ (last.password = "6378" =>
          last.reqs[1].query["magic"] = "993278d1925c378ab94a6fe664ea6c60")

C5_Witness ==
  /\ last.op = "Login"
  /\ last.password = "6378"
  /\ Len(last.reqs) = 1

\* C6: every request of a data operation called while a token is stored
\* carries auth equal to the token stored when the call was made.
C6_RequestsCarryCurrentToken ==
  (last.op \in DataOps /\ last.before # "") =>
    \A i \in 1..Len(last.reqs) :
      /\ "auth" \in DOMAIN last.reqs[i].query
      /\ last.reqs[i].query["auth"] = last.before

C6_Witness ==
  /\ last.op = "GetData"
  /\ last.before = "60588"
  /\ calls = 3
  /\ Len(last.reqs) = 1

\* C7: a data operation called while no token is stored sends its request
\* without any auth parameter.
C7_NoAuthWhenUnauthenticated ==
  (last.op \in DataOps /\ last.before = "") =>
    /\ Len(last.reqs) = 1
    /\ "auth" \notin DOMAIN last.reqs[1].query

\* C8: a new client is unauthenticated; IsAuthenticated() holds exactly when
\* the stored token is not empty; a successful Login leaves the new token
\* stored, also when one was stored before; Logout and SetSessionID("")
\* leave the client unauthenticated.
C8_SessionStateMachine ==
  /\ (last.op = "NewWebClient" => ~IsAuthenticated(wc) /\ GetSessionID(wc) = "")
  /\ (IsAuthenticated(wc) <=> GetSessionID(wc) # "")
  /\ (last.op = "Login" /\ last.err = "nil" =>
        IsAuthenticated(wc) /\ GetSessionID(wc) = last.ret)
  /\ (last.op = "SetSessionID" =>
        /\ GetSessionID(wc) = last.sessionID
        /\ (IsAuthenticated(wc) <=> last.sessionID # ""))
  /\ (last.op = "Logout" => ~IsAuthenticated(wc) /\ GetSessionID(wc) = "")

C8_Witness ==
  /\ last.op = "Logout"
  /\ last.before = "15736"
  /\ ~IsAuthenticated(wc)

\* C9: a data operation sends nothing to the login endpoint and leaves the
\* stored token as it was, whether it succeeds or fails; the stored token
\* changes only in a step of Login, SetSessionID or Logout.
C9_DataOpsKeepToken ==
  /\ [](last.op \in DataOps =>
          /\ wc.auth = last.before
          /\ \A i \in 1..Len(last.reqs) : last.reqs[i].path # LoginPath)
  /\ [][wc'.auth # wc.auth => last'.op \in { "Login", "SetSessionID", "Logout" }]_vars

C9_Witness ==
  /\ last.op = "SetValue"
  /\ last.err # "nil"
  /\ last.before = "15736"
  /\ wc.auth = "15736"

\* C10: every call of Login, GetData, GetAlarms, SetValue or
\* SetMultipleValues sends exactly one request, also when the transport fails
\* or the device rejects it, and no request is sent outside such a call.
C10_OneRequestPerCall ==
  /\ [](last.op \in CoreOps => Len(last.reqs) = 1)
  /\ [][/\ (calls' = calls + 1 => sent' = sent + 1)
        /\ (sent' # sent => calls' = calls + 1)]_vars

C10_Witness ==
  /\ last.op = "SetMultipleValues"
  /\ last.reply.status = 500
  /\ last.err # "nil"
  /\ Len(last.reqs) = 1
  /\ sent = calls

WriteOps == { "SetValue", "SetMultipleValues" }

WritePath == "/config/xml.cgi"

\* C12 as stated: a write fails exactly when the device answers with a status
\* outside 200..299, and it sends nothing but its one write request.
C12_Non2xxIsError ==
  (last.op \in WriteOps /\ last.reply.kind = "response") =>
    /\ (last.err # "nil") <=> (last.reply.status < 200 \/ last.reply.status > 299)
    /\ \A i \in DOMAIN last.reqs : last.reqs[i].path = WritePath

\* C12: SetValue and SetMultipleValues return nil exactly when the device
\* answers with status 200; every other status (204 and 404 alike) and a
\* transport failure is an error.  They send the one write request and
\* nothing else, read nothing back and leave the token alone.
C12_Non200IsError ==
  last.op \in WriteOps =>
    /\ (last.err = "nil") <=> (last.reply.kind = "response" /\ last.reply.status = 200)
    /\ Len(last.reqs) = 1
    /\ last.reqs[1].path = WritePath
    /\ last.ret = ""
    /\ wc.auth = last.before

C12_Witness ==
  /\ last.op = "SetValue"
  /\ last.reply.kind = "response"
  /\ last.reply.status = 204
  /\ last.err = "failed to set value: status 204"

\* The identifier and the value of an entry "ID=VALUE": the text before and
\* after its first "=".
PairId(entry) == Slice(entry, 0, Index(entry, "="))

PairValue(entry) == SliceFrom(entry, Index(entry, "=") + 1)

\* C13 as stated: SetMultipleValues sends one GET to /config/xml.cgi whose
\* query holds auth and, for every given pair, one parameter of its own that
\* carries the pair's identifier and value.
C13_OneParameterPerPair ==
  last.op = "SetMultipleValues" =>
    LET q     == last.reqs[1].query
        pairs == { i \in DOMAIN last.parameters : Index(last.parameters[i], "=") >= 0 }
    IN  /\ Len(last.reqs) = 1
        /\ last.reqs[1].path = WritePath
        /\ "auth" \in DOMAIN q
        /\ q["auth"] = last.before
        /\ \A i \in pairs :
             /\ PairId(last.parameters[i]) \in DOMAIN q
             /\ q[PairId(last.parameters[i])] = PairValue(last.parameters[i])
        /\ Cardinality(DOMAIN q) = 1 + Cardinality(pairs)

\* C13: SetMultipleValues sends one GET to /config/xml.cgi whose query holds
\* auth and one parameter per identifier of the entries that split at "=" in
\* exactly two parts, carrying the value of the last such entry; an entry
\* that splits otherwise is left out, and the values are taken as they are.
C13_OneParameterPerIdentifier ==
  last.op = "SetMultipleValues" =>
    LET q    == last.reqs[1].query
        ps   == last.parameters
        good == { i \in DOMAIN ps : Len(Split(ps[i], "=")) = 2 }
    IN  /\ Len(last.reqs) = 1
        /\ last.reqs[1].path = WritePath
        /\ DOMAIN q = { "auth" } \cup { PairId(ps[i]) : i \in good }
        /\ q["auth"] = last.before
        /\ \A i \in good :
             (\A j \in good : j > i => PairId(ps[j]) # PairId(ps[i])) =>
               q[PairId(ps[i])] = PairValue(ps[i])

C13_Witness ==
  /\ last.op = "SetMultipleValues"
  /\ last.parameters = << "H11021=21", "H11021=22" >>
  /\ last.before = "15736"
  /\ last.reqs[1].query = [ k \in { "auth", "H11021" } |->
                              IF k = "auth" THEN "15736" ELSE "22" ]

ReadOps == { "GetData", "GetAlarms" }

\* C14: GetData and GetAlarms return the body the device sent, whatever its
\* status and content, and return an error exactly when the transport fails
\* or the reading of the body fails.
C14_RawBodyReturned ==
  last.op \in ReadOps =>
    /\ (last.err # "nil") <=> (last.reply.kind = "error" \/ last.reply.readErr)
    /\ (last.reply.kind = "response" => last.ret = last.reply.body)

C14_Witness ==
  /\ last.op = "GetAlarms"
  /\ last.reply = Response(401, "")
  /\ last.err = "nil"
  /\ last.ret = ""

\* C11: on a client shared by goroutines, one Login at most is under way at
\* any time, no load of the token faults, and every request GetData or
\* SetValue sends carries a value that was the stored token, whole, at some
\* time of that call (and no auth only if the client then held none).
C11_TokenSynchronized ==
  /\ Cardinality({ g \in Goroutines : threads[g].op = "Login" /\ threads[g].pc # "idle" }) <= 1
  /\ \A g \in Goroutines : threads[g].pc # "panic"
  /\ wire.op \in { "GetData", "SetValue" } =>
       IF "auth" \in DOMAIN wire.query THEN wire.query["auth"] \in wire.held
       ELSE "" \in wire.held

\* The raw integer decodeTemperature was applied to, and the float64 k/10.
Raw == IntOf(input.rawValue)

Tenths(k) == Float(k, 10)

\* C15: for every raw integer in 0..65535, decodeTemperature returns
\* (raw - 65536)/10 when raw >= 65036, raw/10 when 1 <= raw <= 1300 and 0.0
\* otherwise; 1 -> 0.1, 1300 -> 130.0, 1301 -> 0.0, 0 -> 0.0, 65036 -> -50.0,
\* 65535 -> -0.1, 65526 -> -1.0; every result lies in [-50.0, 130.0].
C15_DecodeTemperature ==
  output # << >> =>
    /\ Raw \in 0..65535
    /\ (Raw >= 65036 => FloatEq(output.celsius, Tenths(Raw - 65536)))
    /\ (Raw >= 1 /\ Raw <= 1300 => FloatEq(output.celsius, Tenths(Raw)))
    /\ (Raw = 0 \/ (Raw >= 1301 /\ Raw <= 65035) => FloatEq(output.celsius, Float(0, 1)))
    /\ (Raw = 1 => FloatEq(output.celsius, Float(1, 10)))
    /\ (Raw = 1300 => FloatEq(output.celsius, Float(130, 1)))
    /\ (Raw = 1301 => FloatEq(output.celsius, Float(0, 1)))
    /\ (Raw = 0 => FloatEq(output.celsius, Float(0, 1)))
    /\ (Raw = 65036 => FloatEq(output.celsius, Float(-50, 1)))
    /\ (Raw = 65535 => FloatEq(output.celsius, Float(-1, 10)))
    /\ (Raw = 65526 => FloatEq(output.celsius, Float(-1, 1)))
    /\ FloatLeq(Float(-50, 1), output.celsius)
    /\ FloatLeq(output.celsius, Float(130, 1))

C15_Witness ==
  /\ output # << >>
  /\ Raw = 65526
  /\ output.celsius = Float(-10, 10)

\* The address was written from four octets in 0..255.
IsQuad == input.op = "IPParameterEncoder" /\ input.octets # << >>

C17_EncoderInvertsDecoder ==
  /\ (IsQuad /\ Len(output) >= 1) =>
       LET low  == input.octets[1] + input.octets[2] * 256
           high == input.octets[3] + input.octets[4] * 256
       IN  /\ low \in 0..65535
           /\ high \in 0..65535
           /\ DOMAIN output[1].params = { "low", "high" }
           /\ output[1].params["low"] = Itoa(low)
           /\ output[1].params["high"] = Itoa(high)
  /\ (input.op = "IPParameterDecoder" /\ Len(output) = 2) =>
       /\ input.low \in 0..65535
       /\ input.high \in 0..65535
       /\ output[2].op = "IPParameterEncoder"
       /\ DOMAIN output[2].params = { "low", "high" }
       /\ Atoi(output[2].params["low"]) = input.low
       /\ Atoi(output[2].params["high"]) = input.high
       /\ output[2].params["low"] = Itoa(input.low)
       /\ output[2].params["high"] = Itoa(input.high)

C17_Witness ==
  /\ input.op = "IPParameterDecoder"
  /\ input.low = 43200
  /\ input.high = 65535
  /\ Len(output) = 2
  /\ output[1].ip = "192.168.255.255"
  /\ output[2].params["low"] = "43200"
  /\ output[2].params["high"] = "65535"

\* ParseXMLData has returned a snapshot for a well-formed document.
Parsed == output # << >> /\ input.op = "ParseXMLData" /\ input.flaw = "none"

\* The place of a section in the order integer, string, floating, enumerated.
Rank(section) == CHOOSE k \in DOMAIN SectionNames : SectionNames[k] = section

\* The item of the document that decides the value of id: of the items with
\* this identifier the one in the section latest in the order of the
\* sections, and of several items with it there the last in the document.
Deciding(id) ==
  CHOOSE i \in DOMAIN input.items :
    /\ input.items[i].ID = id
    /\ \A j \in DOMAIN input.items :
         input.items[j].ID = id =>
           \/ Rank(input.items[j].section) < Rank(input.items[i].section)
           \/ /\ Rank(input.items[j].section) = Rank(input.items[i].section)
              /\ j <= i

PrecedenceSample ==
  "<RD5WEB><RD5><INTEGER_R><O I=\"X\" V=\"1\"/></INTEGER_R><ENUM_R><O I=\"X\" V=\"2\"/></ENUM_R></RD5></RD5WEB>"

\* C18: when an identifier occurs in more than one section of the document,
\* the snapshot of ParseXMLData holds the value of the section that is later
\* in the order integer, string, floating, enumerated (and, among items of
\* one kind of section, of the item that is last in the document); the
\* document with X = "1" in the integer section and X = "2" in the
\* enumerated section yields X -> "2".
C18_LaterSectionWins ==
  Parsed =>
    /\ output.err = "nil"
    /\ \A i, j \in DOMAIN input.items :
         (i # j /\ input.items[i].ID = input.items[j].ID) =>
           /\ input.items[i].ID \in DOMAIN output.data.Items
           /\ output.data.Items[input.items[i].ID] =
                input.items[Deciding(input.items[i].ID)].Value
    /\ input.xmlStr = PrecedenceSample => output.data.Items["X"] = "2"

C18_Witness ==
  /\ Parsed
  /\ input.xmlStr = PrecedenceSample
  /\ output.data.Items = [ id \in { "X" } |-> "2" ]

\* C19: for a well-formed document the snapshot of ParseXMLData has exactly
\* the identifiers of the items in the INTEGER_R, STRING_R, FLOAT_R and
\* ENUM_R sections as keys, each mapped to the text of the attribute V of an
\* item with this identifier, as it is written; the sample document with
\* I10215 and 201 yields I10215 -> "201".
C19_SnapshotHoldsItems ==
  Parsed =>
    /\ output.err = "nil"
    /\ ~output.data.nil
    /\ DOMAIN output.data.Items = { input.items[i].ID : i \in DOMAIN input.items }
    /\ \A id \in DOMAIN output.data.Items :
         \E i \in DOMAIN input.items :
           input.items[i].ID = id /\ output.data.Items[id] = input.items[i].Value
    /\ \A i \in DOMAIN input.items :
         (\A j \in DOMAIN input.items : input.items[j].ID = input.items[i].ID => j = i) =>
           output.data.Items[input.items[i].ID] = input.items[i].Value
    /\ input.xmlStr = SampleData => output.data.Items["I10215"] = "201"

C19_Witness ==
  /\ Parsed
  /\ input.xmlStr = SampleData
  /\ output.data = DeviceData([ id \in { "I10215" } |-> "201" ])

\* What the decoder meets up to the end tag of the first element of the
\* document: no element at all, a syntax error, or another element than
\* RD5WEB.
RootFlaws == { d.flaw : d \in RejectedDocuments }

\* C20 as stated: ParseXMLData fails with an error and returns nil whenever
\* the input is not well-formed XML or its root element is not RD5WEB.
C20_MalformedIsError ==
  (output # << >> /\ input.op = "ParseXMLData" /\ input.flaw # "none") =>
    /\ output.err # "nil"
    /\ output.data = NilData

\* C20: ParseXMLData fails with an error and returns nil, never a partially
\* filled snapshot, whenever the decoder finds no element, meets a syntax
\* error up to the end tag of the first element, or finds a first element
\* other than RD5WEB; whenever it returns an error the snapshot is nil, and
\* otherwise it is not.
C20_RootFlawIsError ==
  (output # << >> /\ input.op = "ParseXMLData") =>
    /\ input.flaw \in RootFlaws => output.err # "nil"
    /\ output.err # "nil" <=> output.data.nil
    /\ output.data.nil => output.data = NilData

C20_Witness ==
  /\ output # << >>
  /\ input.op = "ParseXMLData"
  /\ input.flaw = "wrong end tag"
  /\ input.items = << >>
  /\ Len(input.xmlStr) > 20
  /\ output.err = "XML syntax error: unexpected end element"
  /\ output.data = NilData

\* C21: for a well-formed RD5WEB document without items, its sections empty
\* or absent, ParseXMLData returns no error and a snapshot that is not nil
\* and whose mapping is empty.
C21_EmptyDocumentEmptySnapshot ==
  (Parsed /\ input.items = << >>) =>
    /\ output.err = "nil"
    /\ ~output.data.nil
    /\ DOMAIN output.data.Items = {}
    /\ output.data = DeviceData(<< >>)

C21_Witness ==
  /\ Parsed
  /\ input.items = << >>
  /\ input.xmlStr =
       "<RD5WEB><RD5><INTEGER_R></INTEGER_R><STRING_R/><FLOAT_R>\n</FLOAT_R><ENUM_R></ENUM_R></RD5></RD5WEB>"
  /\ output = [ data |-> DeviceData(<< >>), err |-> "nil" ]

\* The snapshot an accessor was applied to, as it was before the call.
Items == input.before[input.d]

Reading == input # << >> /\ input.op \in { "GetCurrentTemperature", "GetOutdoorTemperature" }

\* The candidates of the reading that was asked for.
Candidates == IF input.op = "GetCurrentTemperature" THEN IndoorIDs ELSE OutdoorIDs

\* The places in the list of the candidates the snapshot holds, and of those
\* it holds with a number as value.
Present == { i \in DOMAIN Candidates : Candidates[i] \in DOMAIN Items }

Numeric == { i \in Present : ParseFloat(Items[Candidates[i]]).ok }

First(S) == CHOOSE i \in S : \A j \in S : i <= j

\* The Value-Codec decoding of a value of the snapshot; of a text that is
\* no number, for which ParseFloat returns 0, it is 0.0.
Decoding(value) == decodeTemperature(ParseFloat(value).value)

\* C22 as stated: GetCurrentTemperature and GetOutdoorTemperature return
\* the decoding of the first candidate that is present in the snapshot, and
\* 0.0 when no candidate is present.
C22_FirstPresentDecides ==
  Reading =>
    /\ output.err = "nil"
    /\ Present = {} => FloatEq(output.val, Float(0, 1))
    /\ Present # {} => FloatEq(output.val, Decoding(Items[Candidates[First(Present)]]))

\* C22: GetCurrentTemperature (candidates I10215, I10222, I10224, I10225,
\* I10249) and GetOutdoorTemperature (candidates I10211, I10275, I10282,
\* I10281) return the decoding of the first candidate, in this order, that
\* is present in the snapshot with a number as its value, and 0.0 when there
\* is no such candidate; they return no error; a snapshot holding
\* I10215 = "201" gives a current temperature of 20.1.
C22_FirstNumberDecides ==
  /\ IndoorIDs = << "I10215", "I10222", "I10224", "I10225", "I10249" >>
  /\ OutdoorIDs = << "I10211", "I10275", "I10282", "I10281" >>
  /\ Reading =>
       /\ output.err = "nil"
       /\ Numeric = {} => FloatEq(output.val, Float(0, 1))
       /\ Numeric # {} => FloatEq(output.val, Decoding(Items[Candidates[First(Numeric)]]))
       /\ (input.op = "GetCurrentTemperature" /\ Items = [ id \in { "I10215" } |-> "201" ]) =>
            FloatEq(output.val, Float(201, 10))

C22_Witness ==
  /\ Reading
  /\ input.op = "GetCurrentTemperature"
  /\ Items = [ id \in { "I10215" } |-> "201" ]
  /\ output.val = Float(201, 10)

\* C23: GetParameterName always returns a name: for an identifier of the
\* table ParameterNames its label there (I10215 -> "Indoor Air Temperature
\* (T-IDA)", H11021 -> "Desired Temperature"), for every other identifier
\* the identifier itself (UNKNOWN -> "UNKNOWN").
C23_LabelOrIdentifier ==
  (input # << >> /\ input.op = "GetParameterName") =>
    /\ DOMAIN output = { "name" }
    /\ input.key \in DOMAIN ParameterNames => output.name = ParameterNames[input.key]
    /\ input.key \notin DOMAIN ParameterNames => output.name = input.key
    /\ input.key = "I10215" => output.name = "Indoor Air Temperature (T-IDA)"
    /\ input.key = "I10211" => output.name = "Outdoor Air Temperature (T-ODA)"
    /\ input.key = "I10212" => output.name = "Supply Air Temperature (T-SUP)"
    /\ input.key = "H11021" => output.name = "Desired Temperature"
    /\ input.key = "UNKNOWN" => output.name = "UNKNOWN"

C23_Witness ==
  /\ input # << >>
  /\ input.op = "GetParameterName"
  /\ input.key = "UNKNOWN"
  /\ "UNKNOWN" \notin DOMAIN ParameterNames
  /\ output.name = "UNKNOWN"

\* The accessors of DeviceData.
Accessors ==
  { "GetValue", "GetIntValue", "GetFloatValue", "GetCurrentTemperature",
    "GetOutdoorTemperature", "GetAllTemperatures", "ExtractCommonParameters" }

\* C24: a snapshot is never changed once it is built: every step, those of
\* GetValue, GetIntValue, GetFloatValue, GetCurrentTemperature,
\* GetOutdoorTemperature, GetAllTemperatures and ExtractCommonParameters
\* among them, leaves the Items of every DeviceData as they are, the
\* accessors leave the server holding the same DeviceData, and a refresh
\* that changes what the server holds makes it hold a DeviceData that did
\* not exist before.
C24_SnapshotNeverMutated ==
  [][ /\ \A d \in DOMAIN heap : d \in DOMAIN heap' /\ heap'[d] = heap[d]
      /\ input'.op \in Accessors => (heap' = heap /\ srv'.deviceData = srv.deviceData)
      /\ srv'.deviceData # srv.deviceData =>
           /\ input'.op = "refreshData"
           /\ srv'.deviceData \notin DOMAIN heap
           /\ srv'.deviceData \in DOMAIN heap' ]_vars

C24_Witness ==
  /\ input # << >>
  /\ input.op = "refreshData"
  /\ output.err = "nil"
  /\ input.before = << BasicItems >>
  /\ heap = << BasicItems, [ id \in { "I10215" } |-> "215" ] >>
  /\ srv.deviceData = 2

(***************************************************************************)
(* Properties of the caching server.                                       *)
(***************************************************************************)
\* Handler goroutine p has answered the request it holds.
HasAnswered(p) == procs[p].pc = "idle" /\ procs[p].resp.kind # "none"

\* p answered a request that its handler served itself and that came to
\* the handler named.
AnsweredAt(p, handler) ==
  /\ HasAnswered(p)
  /\ Route(procs[p].req.path) = handler
  /\ ~ AnsweredByMiddleware(srv, procs[p].req)

Unavailable(resp) ==
  /\ resp.status = 503
  /\ resp.kind = "json"
  /\ resp.success = FALSE
  /\ resp.error = "Device not initialized"

\* C25: a GET of /status, /temperature, /parameters or /parameter/<id>
\* that found deviceData nil is answered with 503, success false and the
\* error "Device not initialized"; a GET of /health is answered with 200
\* and success true whatever the server holds.
C25_NoSnapshotIsUnavailable ==
  \A p \in Handlers :
    /\ (HasAnswered(p) /\ TakesRLock(procs[p].req) /\ procs[p].d = 0)
         => Unavailable(procs[p].resp)
    /\ (HasAnswered(p) /\ procs[p].req = Request("GET", "/health", ""))
         => procs[p].resp.status = 200 /\ procs[p].resp.success = TRUE

C25_Witness ==
  /\ srv.deviceData = 0
  /\ \E p, q \in Handlers :
       /\ HasAnswered(p) /\ procs[p].req \in { Request("GET", "/status", ""),
                                             Request("GET", "/parameter/I10215", "") }
       /\ Unavailable(procs[p].resp)
       /\ HasAnswered(q) /\ procs[q].req = Request("GET", "/health", "")
       /\ procs[q].resp.status = 200

\* What C26 says of a GET of /parameter/<id> that read the snapshot d.
ParameterAnswer(p) ==
  LET resp == procs[p].resp
      id   == ParamID(procs[p].req.path)
      d    == procs[p].d
  IN  IF id = "" THEN resp.status = 400
      ELSE IF d = 0 THEN resp.status = 503
      ELSE IF id \notin DOMAIN heap[d] THEN resp.status = 404 /\ resp.success = FALSE
      ELSE /\ resp.status = 200
           /\ resp.success = TRUE
           /\ resp.data = [ ID |-> id, Name |-> GetParameterName(id), Value |-> heap[d][id] ]

\* C26 as stated: every request to /parameter/ with a method other than
\* GET is answered with 405, and a GET with 400, 503, 404 or 200 in that
\* order of precedence.
C26_AnyOtherMethodNotAllowed ==
  \A p \in Handlers :
    (HasAnswered(p) /\ Route(procs[p].req.path) = "handleParameter")
      => IF procs[p].req.method # "GET" THEN procs[p].resp.status = 405
         ELSE ParameterAnswer(p)

\* C26: a request to /parameter/ that reaches handleParameter with a
\* method other than GET is answered with 405, and a GET with 400 for an
\* empty id, else 503 without a snapshot, else 404 and success false for an
\* id that is no key, else 200 with the id, its label and its raw value; on
\* the started server an OPTIONS request is answered by the CORS middleware
\* with 200 and no body.
C26_ParameterEndpoint ==
  \A p \in Handlers :
    (HasAnswered(p) /\ Route(procs[p].req.path) = "handleParameter")
      => IF AnsweredByMiddleware(srv, procs[p].req) THEN procs[p].resp = Preflight
         ELSE IF procs[p].req.method # "GET" THEN procs[p].resp.status = 405
         ELSE ParameterAnswer(p)

C26_Witness ==
  \E p, q \in Handlers :
    /\ AnsweredAt(p, "handleParameter") /\ procs[p].req.method = "GET"
    /\ procs[p].resp.status = 200 /\ procs[p].resp.data.ID = "I10215"
    /\ AnsweredAt(q, "handleParameter") /\ procs[q].req.method = "GET"
    /\ procs[q].resp.status \in { 400, 404 }

\* No request was accepted and no handler goroutine has moved.
NothingServed ==
  /\ srv.accepted = 0
  /\ \A p \in Handlers : procs[p] = Goroutine("idle")

\* C27: StartServer comes to register its routes and to listen only after
\* authenticate returned nil, with the client logged in and a snapshot
\* stored; when authenticate returned an error StartServer has returned it,
\* never listens afterwards, and no request is ever served.
C27_ListensOnlyAfterAuthenticate ==
  /\ [](srv.phase \in { "authenticated", "listening", "stopped" }
          => /\ procs["main"].pc = "returned"
             /\ procs["main"].err = "nil"
             /\ IsAuthenticated(wc)
             /\ srv.deviceData # 0)
  /\ [](srv.phase \in { "new", "failed", "authenticated", "stopped" } => NothingServed)
  /\ [](srv.phase = "failed" => procs["main"].pc = "returned" /\ procs["main"].err # "nil")
  /\ [][srv.phase = "failed" => srv'.phase = "failed"]_vars

C27_Witness ==
  /\ srv.phase = "listening"
  /\ procs["main"].err = "nil"
  /\ \E p \in Handlers : HasAnswered(p) /\ procs[p].resp.status = 200 /\ procs[p].resp.kind = "json"

\* C28: outside the writers' lock the server holds a snapshot and a
\* lastUpdate stored by the same refresh; the two change only in a
\* goroutine that holds the lock and whose fetch and parse succeeded; a
\* refresh that failed leaves both as they were when it took the lock; and
\* the snapshot and the lastUpdate a handler answered from were stored by
\* one refresh.
C28_SnapshotAndTimeTogether ==
  /\ [](srv.mutex.writer = "" => Pair(srv) \in srv.commits)
  /\ [](\A p \in ServerGoroutines :
          (procs[p].pc = "unlock" /\ procs[p].err # "nil") => Pair(srv) = procs[p].was)
  /\ [](\A p \in Handlers :
          (HasAnswered(p) /\ procs[p].resp.status = 200
             /\ Route(procs[p].req.path) \in { "handleStatus", "handleTemperature" })
            => << procs[p].d, procs[p].t >> \in srv.commits)
  /\ [][Pair(srv') # Pair(srv)
          => \E p \in ServerGoroutines :
               /\ srv.mutex.writer = p
               /\ procs[p].pc \in { "storedata", "storetime" }
               /\ procs[p].err = "nil"]_vars

C28_Witness ==
  \E p, q \in Handlers :
    /\ HasAnswered(p) /\ procs[p].req = Request("GET", "/status", "")
    /\ procs[p].resp.status = 200
    /\ procs[p].resp.data.LastUpdate = srv.lastUpdate
    /\ procs[p].d = srv.deviceData
    /\ HasAnswered(q) /\ procs[q].req = Request("POST", "/refresh", "")
    /\ procs[q].resp.status = 200

(***************************************************************************)
(* Properties of the session manager.                                      *)
(***************************************************************************)
\* The step is a call of the operation named.
SessionStep(op) == calls' = calls + 1 /\ last'.op = op

\* C29: EnsureAuthenticated sends nothing when the client holds a token
\* and otherwise exactly one request, the login; when it returns nil the
\* client holds a token; it sets lastLogin when the Login succeeded and
\* leaves it otherwise; after Logout the client holds no token,
\* GetSessionAge returns 0, and EnsureAuthenticated logs in again.
C29_SessionLifecycle ==
  [][/\ SessionStep("EnsureAuthenticated") =>
          /\ IsAuthenticated(wc) => sent' = sent /\ last'.reqs = << >> /\ sm'.lastLogin = sm.lastLogin
          /\ ~ IsAuthenticated(wc) =>
               /\ sent' = sent + 1
               /\ Len(last'.reqs) = 1
               /\ last'.reqs[1].path = "/config/login.cgi"
          /\ last'.err = "nil" => IsAuthenticated(wc')
          /\ last'.err # "nil" => sm'.lastLogin = sm.lastLogin
          /\ (~ IsAuthenticated(wc) /\ last'.err = "nil") => sm'.lastLogin = sm.now
     /\ SessionStep("Logout") => ~ IsAuthenticated(wc') /\ GetSessionAge(Manager', wc', sm'.now) = 0
     /\ (last.op = "Logout" /\ SessionStep("GetSessionAge")) => last'.ret = 0
     /\ (last.op = "Logout" /\ SessionStep("EnsureAuthenticated")) => Len(last'.reqs) = 1
    ]_vars

C29_Witness ==
  /\ last.op = "EnsureAuthenticated"
  /\ last.err = "nil"
  /\ last.before = ""
  /\ IsAuthenticated(wc)
  /\ sm.lastLogin = 3
  /\ calls = 3

(***************************************************************************)
(* The outcome of a write, by the device's answer.                         *)
(***************************************************************************)
\* The error SetValue and SetMultipleValues make of a status.
StatusError(op, status) ==
  (IF op = "SetValue" THEN "failed to set value: status "
   ELSE "failed to set values: status ") \o Itoa(status)

\* C30: SetValue and SetMultipleValues return nil when the device answers
\* with status 200 and only then; for every other status, 204 included,
\* they return the error naming that status, and when the request fails
\* they return the error of the transport.
C30_SuccessOnlyOn200 ==
  last.op \in WriteOps =>
    CASE last.reply.kind = "error" -> last.err = ErrTransport
      [] last.reply.kind = "response" /\ last.reply.status = 200 -> last.err = "nil"
      [] OTHER -> last.err = StatusError(last.op, last.reply.status) /\ last.err # "nil"

C30_Witness ==
  /\ last.op = "SetMultipleValues"
  /\ last.reply.kind = "response"
  /\ last.reply.status = 204
  /\ last.err = "failed to set values: status 204"
  /\ Len(last.parameters) = 2

====
